---- MODULE Spec2Model ----
(***************************************************************************)
(* A model of RigidBodyNode.cpp: one node of the multibody tree (a body    *)
(* and its inboard joint), the node factory, and the per-node steps of the *)
(* base-to-tip and tip-to-base recursions.                                 *)
(***************************************************************************)
EXTENDS Integers, Sequences, FiniteSets, TLC

(***************************************************************************)
(* Bounds of the model.                                                    *)
(***************************************************************************)
\* Number of RigidBodyNode::create calls explored by SpecCreate.
MaxCreate == 3
\* Changes of turn between two interleaved evaluations that are told apart.
MaxSwitches == 2

(***************************************************************************)
(* The node factory: RigidBodyNode::create and the constructors it calls.  *)
(***************************************************************************)
VARIABLES
    assertsOn,      \* the build: TRUE when assert() is compiled in (NDEBUG not defined)
    useEuler,       \* SBModelingVars: getUseEulerAngles(mv)
    nextUSlot,      \* the caller's three running slot counters
    nextUSqSlot,
    nextQSlot,
    created,        \* the nodes returned by create so far, in creation order
    lastCall,       \* the most recent create call: arguments, counters before, outcome
    aborted         \* TRUE once an assert has ended the process

varsCreate == <<assertsOn, useEuler, nextUSlot, nextUSqSlot, nextQSlot,
                created, lastCall, aborted>>

\* The tree the created nodes are put in, and the storage its passes work on.
VARIABLES
    tree,       \* the fixed tree: parents, node objects, mass properties, frames
    mem,        \* every array entry: <<array, index>> |-> value
    tag,        \* for every entry, <<node, operation>> of its last writer
    pass,       \* the pass the orchestrator is running
    done,       \* the nodes the current pass has visited
    memAtStart, \* mem when the current pass began
    lastOp,     \* the last operation: its node, the entries read and written
    evals       \* two evaluations of the udot passes: the steps each has taken

varsTree == <<tree, mem, tag, pass, done, memAtStart, lastOp, evals>>
vars == <<varsCreate, varsTree>>

\* Before a tree is built there is no storage and no pass.
NoOp == [op |-> "none", node |-> -1, reads |-> {}, writes |-> {}]
NoEvals == [first |-> 0, second |-> 0, last |-> "none", switches |-> 0]
NoTree ==
    /\ tree = [N |-> 0]
    /\ mem = <<>>
    /\ tag = <<>>
    /\ pass = 0
    /\ done = {}
    /\ memAtStart = <<>>
    /\ lastOp = NoOp
    /\ evals = NoEvals

\* JointSpecification::JointType enumerators named by the switch in create,
\* plus one enumerator the switch does not name.
SupportedTypes == {"ThisIsGround", "Torsion", "Universal", "Orientation",
                   "Cartesian", "FreeLine", "Free", "Sliding"}
UnsupportedTypes == {"Cylinder", "Planar", "Gimbal", "Weld", "OtherEnumerator"}
JointTypes == SupportedTypes \cup UnsupportedTypes

\* The class create instantiates for each supported joint type.
ClassOf(type) ==
    CASE type = "ThisIsGround" -> "RBGroundBody"
      [] type = "Torsion"      -> "RBNodeTorsion"
      [] type = "Universal"    -> "RBNodeRotate2"
      [] type = "Orientation"  -> "RBNodeRotate3"
      [] type = "Cartesian"    -> "RBNodeTranslate"
      [] type = "FreeLine"     -> "RBNodeTranslateRotate2"
      [] type = "Free"         -> "RBNodeTranslateRotate3"
      [] type = "Sliding"      -> "RBNodeSlider"

\* getDOF(): 0 for RBGroundBody, else the template argument dof of
\* RigidBodyNodeSpec<dof> the class derives from.
getDOF(class) ==
    CASE class = "RBGroundBody"           -> 0
      [] class = "RBNodeTranslate"        -> 3
      [] class = "RBNodeSlider"           -> 1
      [] class = "RBNodeTorsion"          -> 1
      [] class = "RBNodeRotate2"          -> 2
      [] class = "RBNodeTranslateRotate2" -> 5
      [] class = "RBNodeRotate3"          -> 3
      [] class = "RBNodeTranslateRotate3" -> 6

\* A getMaxNQ without the two overrides (every class keeps the base's dof).
getMaxNQ_NoOverride(class) == getDOF(class)

\* getMaxNQ(): dof by default, overridden by the ball-containing joints.
getMaxNQ(class) ==
    CASE class = "RBNodeRotate3"          -> 4
      [] class = "RBNodeTranslateRotate3" -> 7
      [] OTHER                            -> getDOF(class)

\* getNQ(mv): dof by default; the ball-containing joints use one more
\* coordinate unless Euler angles are in use.
getNQ(class, euler) ==
    CASE class = "RBNodeRotate3"          -> IF euler THEN 3 ELSE 4
      [] class = "RBNodeTranslateRotate3" -> IF euler THEN 6 ELSE 7
      [] OTHER                            -> getDOF(class)

\* The values RBGroundBody's index fields can hold: its constructor receives
\* no counter and assigns none of uIndex, uSqIndex, qIndex, so they are whatever
\* the RigidBodyNode base constructor leaves there.
GroundIndexValues == {-1, 0}

Counters == [u |-> nextUSlot, uSq |-> nextUSqSlot, q |-> nextQSlot]

\* updateSlots that advances the coordinate counter by dof instead of maxNQ.
updateSlots_ByDof(class, c) ==
    [u   |-> c.u   + getDOF(class),
     uSq |-> c.uSq + getDOF(class) * getDOF(class),
     q   |-> c.q   + getDOF(class)]

\* RigidBodyNodeSpec::updateSlots, called at the end of every derived constructor.
updateSlots(class, c) ==
    [u   |-> c.u   + getDOF(class),
     uSq |-> c.uSq + getDOF(class) * getDOF(class),
     q   |-> c.q   + getMaxNQ(class)]

\* A constructor that takes the coordinate index from the mobility counter.
NodeSpecCtor_QFromU(class, c) ==
    [class |-> class, uIndex |-> c.u, uSqIndex |-> c.uSq, qIndex |-> c.u]

\* RigidBodyNodeSpec<dof>'s constructor: the node takes the counters' values.
NodeSpecCtor(class, c) ==
    [class |-> class, uIndex |-> c.u, uSqIndex |-> c.uSq, qIndex |-> c.q]

\* RBGroundBody's constructor: no counter is read or advanced.
GroundCtor(g) ==
    [class |-> "RBGroundBody", uIndex |-> g, uSqIndex |-> g, qIndex |-> g]

NoCall == [type |-> "none", isReversed |-> FALSE, before |-> [u |-> 0, uSq |-> 0, q |-> 0],
           outcome |-> "none"]

Called(type, isReversed, outcome) ==
    [type |-> type, isReversed |-> isReversed, before |-> Counters, outcome |-> outcome]

InitCreate ==
    /\ assertsOn \in BOOLEAN
    /\ useEuler \in BOOLEAN
    /\ nextUSlot = 0
    /\ nextUSqSlot = 0
    /\ nextQSlot = 0
    /\ created = <<>>
    /\ lastCall = NoCall
    /\ aborted = FALSE
    /\ NoTree

\* assert(cond) failing in a build that compiles asserts in: the process ends.
AssertFails(type, isReversed) ==
    /\ aborted' = TRUE
    /\ lastCall' = Called(type, isReversed, "fatal")
    /\ UNCHANGED <<assertsOn, useEuler, nextUSlot, nextUSqSlot, nextQSlot, created>>

\* RigidBodyNode::create(m, X_PJb, X_BJ, type, isReversed, nxtUSlot, nxtUSqSlot, nxtQSlot)
create(type, isReversed) ==
    /\ ~aborted
    /\ Len(created) < MaxCreate
    /\ IF assertsOn /\ isReversed
       THEN AssertFails(type, isReversed)                     \* assert(!isReversed)
       ELSE IF type = "ThisIsGround"
       THEN \E g \in GroundIndexValues :
              /\ created' = Append(created, GroundCtor(g))
              /\ lastCall' = Called(type, isReversed, "node")
              /\ UNCHANGED <<assertsOn, useEuler, nextUSlot, nextUSqSlot, nextQSlot, aborted>>
       ELSE IF type \in SupportedTypes
       THEN LET after == updateSlots(ClassOf(type), Counters) IN
              /\ created' = Append(created, NodeSpecCtor(ClassOf(type), Counters))
              /\ nextUSlot' = after.u
              /\ nextUSqSlot' = after.uSq
              /\ nextQSlot' = after.q
              /\ lastCall' = Called(type, isReversed, "node")
              /\ UNCHANGED <<assertsOn, useEuler, aborted>>
       ELSE IF assertsOn
       THEN AssertFails(type, isReversed)                     \* default: assert(false)
       ELSE /\ lastCall' = Called(type, isReversed, "null")   \* return 0
            /\ UNCHANGED <<assertsOn, useEuler, nextUSlot, nextUSqSlot, nextQSlot,
                           created, aborted>>

NextCreate ==
    \E type \in JointTypes, isReversed \in BOOLEAN :
        create(type, isReversed) /\ UNCHANGED varsTree

SpecCreate == InitCreate /\ [][NextCreate]_vars

(***************************************************************************)
(* The spatial algebra the node code is written in.  Real numbers are      *)
(* represented in the prime field of integers modulo Modulus: sums,        *)
(* products and inverses are exact there, so every algebraic identity the  *)
(* code relies on over the reals holds in the model, and a difference      *)
(* between two of its formulas shows up as a difference of values.         *)
(* Angles are counted in quarter turns, whose sines and cosines are 0, 1   *)
(* and -1.                                                                 *)
(***************************************************************************)
Modulus == 2^5 - 1

F(x) == x % Modulus

\* 1/a for a # 0.
Inv == [a \in 1..(Modulus - 1) |-> CHOOSE x \in 1..(Modulus - 1) : (a * x) % Modulus = 1]

\* The square root of a square, taken in the lower half of the field.
Sqrt(x) == CHOOSE r \in 0..((Modulus - 1) \div 2) : (r * r) % Modulus = x

\* std::sin and std::cos of an angle of k quarter turns.
Sin(k) == CASE k % 4 = 0 -> 0 [] k % 4 = 1 -> 1 [] k % 4 = 2 -> 0 [] OTHER -> Modulus - 1
Cos(k) == CASE k % 4 = 0 -> 1 [] k % 4 = 1 -> 0 [] k % 4 = 2 -> Modulus - 1 [] OTHER -> 0

\* A function over 1..n, evaluated once into the tuple of its values.
Tuple(f) == f \o <<>>

\* Vectors of any length.
VAdd(a, b) == Tuple([i \in 1..Len(a) |-> F(a[i] + b[i])])
VSub(a, b) == Tuple([i \in 1..Len(a) |-> F(a[i] - b[i])])
VNeg(a) == Tuple([i \in 1..Len(a) |-> F(0 - a[i])])
VScale(s, a) == Tuple([i \in 1..Len(a) |-> F(s * a[i])])
VDiv(a, s) == VScale(Inv[s], a)
VZero(n) == Tuple([i \in 1..n |-> 0])

RECURSIVE DotUpTo(_, _, _)
DotUpTo(a, b, k) == IF k = 0 THEN 0 ELSE F(DotUpTo(a, b, k - 1) + a[k] * b[k])
dot(a, b) == DotUpTo(a, b, Len(a))

\* Matrices as tuples of rows.
Col(M, j) == Tuple([i \in 1..Len(M) |-> M[i][j]])
Transpose(M) == Tuple([j \in 1..Len(M[1]) |-> Col(M, j)])
MatMul(A, B) ==
    LET Bt == Transpose(B) IN
    Tuple([i \in 1..Len(A) |-> Tuple([j \in 1..Len(Bt) |-> dot(A[i], Bt[j])])])
MatVec(A, x) == Tuple([i \in 1..Len(A) |-> dot(A[i], x)])
MAdd(A, B) == Tuple([i \in 1..Len(A) |-> VAdd(A[i], B[i])])
MSub(A, B) == Tuple([i \in 1..Len(A) |-> VSub(A[i], B[i])])
MNeg(A) == Tuple([i \in 1..Len(A) |-> VNeg(A[i])])
MScale(s, A) == Tuple([i \in 1..Len(A) |-> VScale(s, A[i])])
Ident(n) == Tuple([i \in 1..n |-> Tuple([j \in 1..n |-> IF i = j THEN 1 ELSE 0])])
MZero(n, m) == Tuple([i \in 1..n |-> VZero(m)])

\* Gauss-Jordan elimination on an augmented matrix; <<>> when a pivot is missing.
RECURSIVE GaussJordan(_, _)
GaussJordan(M, k) ==
    IF k > Len(M) THEN M
    ELSE LET piv == {r \in k..Len(M) : M[r][k] # 0} IN
         IF piv = {} THEN <<>>
         ELSE LET r == CHOOSE x \in piv : \A y \in piv : x <= y
                  sw == Tuple([M EXCEPT ![k] = M[r], ![r] = M[k]])
                  prow == VDiv(sw[k], sw[k][k])
                  elim == Tuple([i \in 1..Len(M) |->
                                    IF i = k THEN prow
                                    ELSE VSub(sw[i], VScale(sw[i][k], prow))])
              IN GaussJordan(elim, k + 1)

\* Mat<dof,dof>::invert(); <<>> stands for the exception it throws on a
\* matrix it cannot invert.
invert(D) ==
    LET n == Len(D)
        r == GaussJordan(Tuple([i \in 1..n |-> D[i] \o Ident(n)[i]]), 1)
    IN IF r = <<>> THEN <<>> ELSE Tuple([i \in 1..n |-> SubSeq(r[i], n + 1, 2 * n)])

\* Vec3 and Mat33.
Vec3(a, b, c) == <<a, b, c>>
cross(a, b) == <<F(a[2] * b[3] - a[3] * b[2]),
                 F(a[3] * b[1] - a[1] * b[3]),
                 F(a[1] * b[2] - a[2] * b[1])>>
crossMat(v) == <<<<0, F(0 - v[3]), v[2]>>,
                 <<v[3], 0, F(0 - v[1])>>,
                 <<F(0 - v[2]), v[1], 0>>>>

\* SpatialVec: the angular part first, the linear part second.
SpatialVec(w, v) == w \o v
Ang(sv) == <<sv[1], sv[2], sv[3]>>
Lin(sv) == <<sv[4], sv[5], sv[6]>>
SpatialZero == SpatialVec(VZero(3), VZero(3))

\* SpatialMat from its four 3x3 blocks.
SpatialMat(A, B, C, D) ==
    Tuple([i \in 1..6 |-> IF i <= 3 THEN A[i] \o B[i] ELSE C[i - 3] \o D[i - 3]])

\* PhiMatrix(l) as a 6x6 matrix: it shifts a spatial force from the child to
\* the parent; its transpose shifts a spatial velocity from parent to child.
PhiMatrix(l) == SpatialMat(Ident(3), crossMat(l), MZero(3, 3), Ident(3))

\* Rotations.
RotationAboutX(k) == <<<<1, 0, 0>>, <<0, Cos(k), F(0 - Sin(k))>>, <<0, Sin(k), Cos(k)>>>>
RotationAboutY(k) == <<<<Cos(k), 0, Sin(k)>>, <<0, 1, 0>>, <<F(0 - Sin(k)), 0, Cos(k)>>>>
RotationAboutZ(k) == <<<<Cos(k), F(0 - Sin(k)), 0>>, <<Sin(k), Cos(k), 0>>, <<0, 0, 1>>>>
\* setToSpaceFixed12: about the fixed x axis, then about the fixed y axis.
SpaceFixed12(a) == MatMul(RotationAboutY(a[2]), RotationAboutX(a[1]))
\* setToBodyFixed123: about x, then the new y, then the new z.
BodyFixed123(a) ==
    MatMul(MatMul(RotationAboutX(a[1]), RotationAboutY(a[2])), RotationAboutZ(a[3]))

\* Vec4::norm() and the quaternion divided by it.
QuatNorm(quat) == Sqrt(dot(quat, quat))
Normalized(quat) == VDiv(quat, QuatNorm(quat))

\* setToQuaternion(Quaternion(q)): the Quaternion constructor normalizes.
QuaternionToRotation(quat) ==
    LET e == Normalized(quat)
        a == e[1]  b == e[2]  c == e[3]  d == e[4]
    IN <<<<F(a*a + b*b - c*c - d*d), F(2 * (b*c - a*d)), F(2 * (b*d + a*c))>>,
         <<F(2 * (b*c + a*d)), F(a*a - b*b + c*c - d*d), F(2 * (c*d - a*b))>>,
         <<F(2 * (b*d - a*c)), F(2 * (c*d + a*b)), F(a*a - b*b - c*c + d*d)>>>>

\* Transform: a rotation R and a translation T.
Transform(R, T) == [R |-> R, T |-> T]
IdentityTransform == Transform(Ident(3), VZero(3))
\* X_AB * X_BC
Compose(X, Y) == Transform(MatMul(X.R, Y.R), VAdd(X.T, MatVec(X.R, Y.T)))
\* ~X
InverseTransform(X) == Transform(Transpose(X.R), VNeg(MatVec(Transpose(X.R), X.T)))
\* R.x(), R.y(), R.z(): the columns of a rotation matrix.
AxisX(R) == Col(R, 1)
AxisY(R) == Col(R, 2)
AxisZ(R) == Col(R, 3)

(***************************************************************************)
(* The tree, the state vectors, the stage caches and the caller's arrays.  *)
(***************************************************************************)
\* Number of bodies besides Ground.
NumBodies == 3

Nodes == 0..tree.N
Bodies == 1..tree.N
Node(n) == tree.node[n]
Parent(n) == tree.parent[n]
\* children, in addChild order (the order of creation).
RECURSIVE ChildrenFrom(_, _)
ChildrenFrom(n, c) ==
    IF c > tree.N THEN <<>>
    ELSE (IF tree.parent[c] = n THEN <<c>> ELSE <<>>) \o ChildrenFrom(n, c + 1)
Children(n) == ChildrenFrom(n, 1)
ChildSet(n) == {c \in Bodies : tree.parent[c] = n}

ClassOfNode(n) == Node(n).class
dof(n) == getDOF(ClassOfNode(n))
maxNQ(n) == getMaxNQ(ClassOfNode(n))
uIndex(n) == Node(n).uIndex
qIndex(n) == Node(n).qIndex
uSqIndex(n) == Node(n).uSqIndex
getMass(n) == tree.body[n].mass
getCOM_B(n) == tree.body[n].COM_B
getInertia_OB_B(n) == tree.body[n].Inertia_OB_B
getX_PJb(n) == tree.body[n].X_PJb
getX_BJ(n) == tree.body[n].X_BJ

\* The arrays, by the index that addresses them.
ConfigurationBodyArrays == {"X_JbJ", "X_PB", "X_GB", "Phi", "Inertia_OB_G", "CB_G", "COM_G", "Mk"}
MotionBodyArrays == {"V_PB_G", "V_GB"}
DynamicsBodyArrays == {"gyroscopicForce", "coriolisAcceleration", "centrifugalForces",
                       "P", "tauBar", "Psi", "Y"}
ReactionBodyArrays == {"z", "Gepsilon", "A_GB"}
CallerBodyArrays == {"bodyForces", "allZ", "allGepsilon", "allA_GB", "zTmp", "X",
                     "eqZ", "eqGepsilon",
                     "bodyForces2", "allZ2", "allGepsilon2", "allA_GB2",
                     "argX_JbJ", "argV_JbJ"}
ModelingBodyArrays == {"prescribed"}
BodyArrays == ConfigurationBodyArrays \cup MotionBodyArrays \cup DynamicsBodyArrays
                \cup ReactionBodyArrays \cup CallerBodyArrays \cup ModelingBodyArrays
UArrays == {"storageForHt", "storageForG", "appliedMobilityForces", "epsilon", "nu",
            "netHingeForces", "u", "udot", "jointForces", "allEpsilon", "allUDot",
            "JX", "eqJointForces", "uIn",
            "jointForces2", "allEpsilon2", "allUDot2"}
QArrays == {"sq", "cq", "qnorm", "q", "qdot", "qdotdot", "qIn"}
USqArrays == {"storageForD", "storageForDI"}

ConfigurationCache == ConfigurationBodyArrays \cup {"storageForHt", "sq", "cq", "qnorm"}
MotionCache == MotionBodyArrays
DynamicsCache == DynamicsBodyArrays \cup {"storageForD", "storageForDI", "storageForG",
                                          "appliedMobilityForces"}
ReactionCache == ReactionBodyArrays \cup {"epsilon", "nu", "netHingeForces"}

\* Access to slots of a flat array.
SlotKeys(arr, base, len) == {<<arr, base + i - 1>> : i \in 1..len}
FromSlots(v, arr, base, len) == Tuple([i \in 1..len |-> v[<<arr, base + i - 1>>]])
ToSlots(arr, base, vec) ==
    [k \in SlotKeys(arr, base, Len(vec)) |-> vec[k[2] - base + 1]]
NoWrites == [k \in {} |-> 0]
View(m, keys) == [k \in keys |-> m[k]]

\* The select-my-goodies-from-the-pool routines of RigidBodyNodeSpec<dof>.
QKeys(arr, n) == SlotKeys(arr, qIndex(n), dof(n))
fromQ(v, arr, n) == FromSlots(v, arr, qIndex(n), dof(n))
toQ(arr, n, vec) == ToSlots(arr, qIndex(n), vec)
UKeys(arr, n) == SlotKeys(arr, uIndex(n), dof(n))
fromU(v, arr, n) == FromSlots(v, arr, uIndex(n), dof(n))
\* A toU that forgets the node's offset into the array.
toU_FromZero(arr, n, vec) == ToSlots(arr, 0, vec)
toU(arr, n, vec) == ToSlots(arr, uIndex(n), vec)
USqKeys(arr, n) == SlotKeys(arr, uSqIndex(n), dof(n) * dof(n))
fromUSq(v, arr, n) ==
    Tuple([i \in 1..dof(n) |->
            Tuple([j \in 1..dof(n) |-> v[<<arr, uSqIndex(n) + (i - 1) * dof(n) + j - 1>>]])])
toUSq(arr, n, M) ==
    [k \in USqKeys(arr, n) |->
        M[((k[2] - uSqIndex(n)) \div dof(n)) + 1][((k[2] - uSqIndex(n)) % dof(n)) + 1]]
from1Q(v, arr, n) == v[<<arr, qIndex(n)>>]
QuatKeys(arr, n) == SlotKeys(arr, qIndex(n), 4)
fromQuat(v, arr, n) == FromSlots(v, arr, qIndex(n), 4)
toQuat(arr, n, vec4) == ToSlots(arr, qIndex(n), vec4)
QVec3Keys(arr, n, offs) == SlotKeys(arr, qIndex(n) + offs, 3)
fromQVec3(v, arr, n, offs) == FromSlots(v, arr, qIndex(n) + offs, 3)
toQVec3(arr, n, offs, vec3) == ToSlots(arr, qIndex(n) + offs, vec3)
UVec3Keys(arr, n, offs) == SlotKeys(arr, uIndex(n) + offs, 3)
fromUVec3(v, arr, n, offs) == FromSlots(v, arr, uIndex(n) + offs, 3)
toUVec3(arr, n, offs, vec3) == ToSlots(arr, uIndex(n) + offs, vec3)
\* getH / updH: row i of H is column i of storageForHt, starting at uIndex.
\* getG / updG: column j of G is column j of storageForG, starting at uIndex.
getH(v, n) == fromU(v, "storageForHt", n)
updH(n, H) == toU("storageForHt", n, H)
getG(v, n) == Transpose(fromU(v, "storageForG", n))
updG(n, G) == toU("storageForG", n, Transpose(G))

(***************************************************************************)
(* One operation on one node is a chain of steps.  A step names the        *)
(* entries it reads and gives the entries it writes, computed from the     *)
(* entries it reads and from nothing else; a run threads the memory, the   *)
(* writer tags, and the log of reads and writes through the steps.         *)
(***************************************************************************)
Step(reads, writes) == [reads |-> reads, writes |-> writes, threw |-> FALSE]
\* A failing step that lets the operation go on.
StepThrowing_GoingOn(reads, writes) == [reads |-> reads, writes |-> writes, threw |-> FALSE]
\* A step that an exception ends after the given writes.
StepThrowing(reads, writes) == [reads |-> reads, writes |-> writes, threw |-> TRUE]
NoStep == Step({}, NoWrites)

StartRun == [mem |-> mem, tag |-> tag, reads |-> {}, writes |-> {}, threw |-> FALSE]

\* Apply step(view of the reads) for node n inside operation op.
Do(st, step, n, op) ==
    [mem    |-> step.writes @@ st.mem,
     tag    |-> [k \in DOMAIN step.writes |-> <<n, op>>] @@ st.tag,
     reads  |-> st.reads \cup {<<k, st.tag[k]>> : k \in step.reads},
     writes |-> st.writes \cup DOMAIN step.writes,
     threw  |-> st.threw \/ step.threw]

(***************************************************************************)
(* Joint-specific position kinematics, one definition per virtual method,  *)
(* dispatching on the node's class.                                        *)
(***************************************************************************)
SinOf(a) == Tuple([i \in 1..Len(a) |-> Sin(a[i])])
CosOf(a) == Tuple([i \in 1..Len(a) |-> Cos(a[i])])

\* calcJointSinCosQNorm storing the quaternion in qnorm as it finds it.
calcJointSinCosQNorm_RawCopy(m, n) ==
    LET c == ClassOfNode(n) IN
    CASE c \in {"RBNodeTranslate", "RBNodeSlider"} -> NoStep
      [] c = "RBNodeTorsion" ->
            LET R == {<<"q", qIndex(n)>>}
                angle == from1Q(View(m, R), "q", n)
            IN Step(R, (<<"sq", qIndex(n)>> :> Sin(angle)) @@ (<<"cq", qIndex(n)>> :> Cos(angle)))
      [] c = "RBNodeRotate2" ->
            LET R == QKeys("q", n)
                a == fromQ(View(m, R), "q", n)
            IN Step(R, toQ("sq", n, SinOf(a)) @@ toQ("cq", n, CosOf(a)))
      [] c = "RBNodeTranslateRotate2" ->
            LET R == SlotKeys("q", qIndex(n), 2)
                a == FromSlots(View(m, R), "q", qIndex(n), 2)
            IN Step(R, ToSlots("sq", qIndex(n), SinOf(a)) @@ ToSlots("cq", qIndex(n), CosOf(a)))
      [] c \in {"RBNodeRotate3", "RBNodeTranslateRotate3"} ->
            IF useEuler
            THEN LET R == QVec3Keys("q", n, 0)
                     a == fromQVec3(View(m, R), "q", n, 0)
                 IN Step(R, toQVec3("sq", n, 0, SinOf(a)) @@ toQVec3("cq", n, 0, CosOf(a)))
            ELSE LET R == QuatKeys("q", n)
                     quat == fromQuat(View(m, R), "q", n)
                 IN Step(R, toQuat("qnorm", n, quat))

calcJointSinCosQNorm(m, n) ==
    LET c == ClassOfNode(n) IN
    CASE c \in {"RBNodeTranslate", "RBNodeSlider"} -> NoStep
      [] c = "RBNodeTorsion" ->
            LET R == {<<"q", qIndex(n)>>}
                angle == from1Q(View(m, R), "q", n)
            IN Step(R, (<<"sq", qIndex(n)>> :> Sin(angle)) @@ (<<"cq", qIndex(n)>> :> Cos(angle)))
      [] c = "RBNodeRotate2" ->
            LET R == QKeys("q", n)
                a == fromQ(View(m, R), "q", n)
            IN Step(R, toQ("sq", n, SinOf(a)) @@ toQ("cq", n, CosOf(a)))
      [] c = "RBNodeTranslateRotate2" ->
            LET R == SlotKeys("q", qIndex(n), 2)
                a == FromSlots(View(m, R), "q", qIndex(n), 2)
            IN Step(R, ToSlots("sq", qIndex(n), SinOf(a)) @@ ToSlots("cq", qIndex(n), CosOf(a)))
      [] c \in {"RBNodeRotate3", "RBNodeTranslateRotate3"} ->
            IF useEuler
            THEN LET R == QVec3Keys("q", n, 0)
                     a == fromQVec3(View(m, R), "q", n, 0)
                 IN Step(R, toQVec3("sq", n, 0, SinOf(a)) @@ toQVec3("cq", n, 0, CosOf(a)))
            ELSE LET R == QuatKeys("q", n)
                     quat == fromQuat(View(m, R), "q", n)
                 IN Step(R, toQuat("qnorm", n, Normalized(quat)))

\* An across-joint transform whose Cartesian case forgets the node's offset into q.
calcAcrossJointTransform_FromSlotZero(m, n) ==
    LET c == ClassOfNode(n)
        Out(R, X) == Step(R, <<"X_JbJ", n>> :> X)
    IN
    CASE c = "RBNodeTranslate" ->
            LET R == QKeys("q", n) IN
            Out(SlotKeys("q", 0, 3), Transform(Ident(3), FromSlots(m, "q", 0, 3)))
      [] c = "RBNodeSlider" ->
            LET R == {<<"q", qIndex(n)>>} IN
            Out(R, Transform(Ident(3), Vec3(0, 0, from1Q(View(m, R), "q", n))))
      [] c = "RBNodeTorsion" ->
            LET R == {<<"q", qIndex(n)>>} IN
            Out(R, Transform(RotationAboutZ(from1Q(View(m, R), "q", n)), VZero(3)))
      [] c = "RBNodeRotate2" ->
            LET R == QKeys("q", n) IN
            Out(R, Transform(SpaceFixed12(fromQ(View(m, R), "q", n)), VZero(3)))
      [] c = "RBNodeTranslateRotate2" ->
            LET R == QKeys("q", n)
                coords == fromQ(View(m, R), "q", n)
            IN Out(R, Transform(SpaceFixed12(SubSeq(coords, 1, 2)), SubSeq(coords, 3, 5)))
      [] c = "RBNodeRotate3" ->
            IF useEuler
            THEN LET R == QKeys("q", n) IN
                 Out(R, Transform(BodyFixed123(fromQ(View(m, R), "q", n)), VZero(3)))
            ELSE LET R == QuatKeys("q", n) IN
                 Out(R, Transform(QuaternionToRotation(fromQuat(View(m, R), "q", n)), VZero(3)))
      [] c = "RBNodeTranslateRotate3" ->
            IF useEuler
            THEN LET R == QVec3Keys("q", n, 0) \cup QVec3Keys("q", n, 3)
                     v == View(m, R)
                 IN Out(R, Transform(BodyFixed123(fromQVec3(v, "q", n, 0)), fromQVec3(v, "q", n, 3)))
            ELSE LET R == QuatKeys("q", n) \cup QVec3Keys("q", n, 4)
                     v == View(m, R)
                 IN Out(R, Transform(QuaternionToRotation(fromQuat(v, "q", n)),
                                     fromQVec3(v, "q", n, 4)))

calcAcrossJointTransform(m, n) ==
    LET c == ClassOfNode(n)
        Out(R, X) == Step(R, <<"X_JbJ", n>> :> X)
    IN
    CASE c = "RBNodeTranslate" ->
            LET R == QKeys("q", n) IN
            Out(R, Transform(Ident(3), fromQ(View(m, R), "q", n)))
      [] c = "RBNodeSlider" ->
            LET R == {<<"q", qIndex(n)>>} IN
            Out(R, Transform(Ident(3), Vec3(0, 0, from1Q(View(m, R), "q", n))))
      [] c = "RBNodeTorsion" ->
            LET R == {<<"q", qIndex(n)>>} IN
            Out(R, Transform(RotationAboutZ(from1Q(View(m, R), "q", n)), VZero(3)))
      [] c = "RBNodeRotate2" ->
            LET R == QKeys("q", n) IN
            Out(R, Transform(SpaceFixed12(fromQ(View(m, R), "q", n)), VZero(3)))
      [] c = "RBNodeTranslateRotate2" ->
            LET R == QKeys("q", n)
                coords == fromQ(View(m, R), "q", n)
            IN Out(R, Transform(SpaceFixed12(SubSeq(coords, 1, 2)), SubSeq(coords, 3, 5)))
      [] c = "RBNodeRotate3" ->
            IF useEuler
            THEN LET R == QKeys("q", n) IN
                 Out(R, Transform(BodyFixed123(fromQ(View(m, R), "q", n)), VZero(3)))
            ELSE LET R == QuatKeys("q", n) IN
                 Out(R, Transform(QuaternionToRotation(fromQuat(View(m, R), "q", n)), VZero(3)))
      [] c = "RBNodeTranslateRotate3" ->
            IF useEuler
            THEN LET R == QVec3Keys("q", n, 0) \cup QVec3Keys("q", n, 3)
                     v == View(m, R)
                 IN Out(R, Transform(BodyFixed123(fromQVec3(v, "q", n, 0)), fromQVec3(v, "q", n, 3)))
            ELSE LET R == QuatKeys("q", n) \cup QVec3Keys("q", n, 4)
                     v == View(m, R)
                 IN Out(R, Transform(QuaternionToRotation(fromQuat(v, "q", n)),
                                     fromQVec3(v, "q", n, 4)))

\* X_PB = X_PJb * X_JbJ * ~X_BJ;  X_GB = X_GP * X_PB.
calcBodyTransforms(m, n) ==
    LET R == {<<"X_JbJ", n>>, <<"X_GB", Parent(n)>>}
        v == View(m, R)
        X_PB == Compose(Compose(getX_PJb(n), v[<<"X_JbJ", n>>]), InverseTransform(getX_BJ(n)))
        X_GB == Compose(v[<<"X_GB", Parent(n)>>], X_PB)
    IN Step(R, (<<"X_PB", n>> :> X_PB) @@ (<<"X_GB", n>> :> X_GB))

\* Rows of H for the axes of a frame: a rotation about the axis through the
\* joint origin, or a translation along the axis.
RotationRow(axis, T_JB_G) == SpatialVec(axis, cross(axis, T_JB_G))
TranslationRow(axis) == SpatialVec(VZero(3), axis)

calcJointTransitionMatrix(m, n) ==
    LET c == ClassOfNode(n)
        translating == c \in {"RBNodeTranslate", "RBNodeSlider"}
        R == IF translating THEN {<<"X_GB", Parent(n)>>}
                            ELSE {<<"X_GB", Parent(n)>>, <<"X_GB", n>>}
        v == View(m, R)
        X_GP == v[<<"X_GB", Parent(n)>>]
        T_JB_G == VNeg(MatVec(v[<<"X_GB", n>>].R, getX_BJ(n).T))
        R_GJb == MatMul(X_GP.R, getX_PJb(n).R)
        z_G == MatVec(X_GP.R, AxisZ(getX_PJb(n).R))
        H == CASE c = "RBNodeTranslate" ->
                    <<TranslationRow(AxisX(R_GJb)), TranslationRow(AxisY(R_GJb)),
                      TranslationRow(AxisZ(R_GJb))>>
               [] c = "RBNodeSlider" -> <<TranslationRow(z_G)>>
               [] c = "RBNodeTorsion" -> <<RotationRow(z_G, T_JB_G)>>
               [] c = "RBNodeRotate2" ->
                    <<RotationRow(AxisX(R_GJb), T_JB_G), RotationRow(AxisY(R_GJb), T_JB_G)>>
               [] c = "RBNodeTranslateRotate2" ->
                    <<RotationRow(AxisX(R_GJb), T_JB_G), RotationRow(AxisY(R_GJb), T_JB_G),
                      TranslationRow(AxisX(R_GJb)), TranslationRow(AxisY(R_GJb)),
                      TranslationRow(AxisZ(R_GJb))>>
               [] c = "RBNodeRotate3" ->
                    <<RotationRow(AxisX(R_GJb), T_JB_G), RotationRow(AxisY(R_GJb), T_JB_G),
                      RotationRow(AxisZ(R_GJb), T_JB_G)>>
               [] c = "RBNodeTranslateRotate3" ->
                    <<RotationRow(AxisX(R_GJb), T_JB_G), RotationRow(AxisY(R_GJb), T_JB_G),
                      RotationRow(AxisZ(R_GJb), T_JB_G),
                      TranslationRow(AxisX(R_GJb)), TranslationRow(AxisY(R_GJb)),
                      TranslationRow(AxisZ(R_GJb))>>
    IN Step(R, updH(n, H))

\* RigidBodyNode::calcJointIndependentKinematicsPos: Phi, the inertia and the
\* mass center in Ground, then COM_G, then Mk, each from entries already there.
PosPhiInertia(m, n) ==
    LET R == {<<"X_GB", Parent(n)>>, <<"X_PB", n>>, <<"X_GB", n>>}
        v == View(m, R)
        R_GB == v[<<"X_GB", n>>].R
        T_PB_G == MatVec(v[<<"X_GB", Parent(n)>>].R, v[<<"X_PB", n>>].T)
    IN Step(R, (<<"Phi", n>> :> T_PB_G)
               @@ (<<"Inertia_OB_G", n>> :>
                      MatMul(MatMul(R_GB, getInertia_OB_B(n)), Transpose(R_GB)))
               @@ (<<"CB_G", n>> :> MatVec(R_GB, getCOM_B(n))))

PosCOM(m, n) ==
    LET R == {<<"X_GB", n>>, <<"CB_G", n>>}
        v == View(m, R)
    IN Step(R, <<"COM_G", n>> :> VAdd(v[<<"X_GB", n>>].T, v[<<"CB_G", n>>]))

\* Mk with the same off-diagonal block in both corners.
PosMk_SameOffDiag(m, n) ==
    LET R == {<<"CB_G", n>>, <<"Inertia_OB_G", n>>}
        v == View(m, R)
        offDiag == MScale(getMass(n), crossMat(v[<<"CB_G", n>>]))
    IN Step(R, <<"Mk", n>> :> SpatialMat(v[<<"Inertia_OB_G", n>>], offDiag,
                                         offDiag, MScale(getMass(n), Ident(3))))

PosMk(m, n) ==
    LET R == {<<"CB_G", n>>, <<"Inertia_OB_G", n>>}
        v == View(m, R)
        offDiag == MScale(getMass(n), crossMat(v[<<"CB_G", n>>]))
    IN Step(R, <<"Mk", n>> :> SpatialMat(v[<<"Inertia_OB_G", n>>], offDiag,
                                         MNeg(offDiag), MScale(getMass(n), Ident(3))))

calcJointIndependentKinematicsPos(st, n, op) ==
    LET s1 == Do(st, PosPhiInertia(st.mem, n), n, op)
        s2 == Do(s1, PosCOM(s1.mem, n), n, op)
    IN Do(s2, PosMk(s2.mem, n), n, op)

\* RigidBodyNodeSpec::realizeConfiguration; RBGroundBody's does nothing.
realizeConfiguration(st, n) ==
    IF ClassOfNode(n) = "RBGroundBody" THEN st
    ELSE LET op == "realizeConfiguration"
             s1 == Do(st, calcJointSinCosQNorm(st.mem, n), n, op)
             s2 == Do(s1, calcAcrossJointTransform(s1.mem, n), n, op)
             s3 == Do(s2, calcBodyTransforms(s2.mem, n), n, op)
             s4 == Do(s3, calcJointTransitionMatrix(s3.mem, n), n, op)
         IN calcJointIndependentKinematicsPos(s4, n, op)

(***************************************************************************)
(* Defaults and setters of the state variables q and u.                    *)
(***************************************************************************)
setDefaultConfigurationValues(m, n) ==
    LET c == ClassOfNode(n) IN
    CASE c = "RBNodeRotate3" ->
            IF useEuler
            THEN Step({}, toQ("q", n, VZero(dof(n))) @@ toQuat("q", n, VZero(4)))
            ELSE Step({}, toQuat("q", n, <<1, 0, 0, 0>>))
      [] c = "RBNodeTranslateRotate3" ->
            IF useEuler
            THEN Step({}, toQ("q", n, VZero(dof(n))) @@ toQVec3("q", n, 4, VZero(3)))
            ELSE Step({}, toQuat("q", n, <<1, 0, 0, 0>>) @@ toQVec3("q", n, 4, VZero(3)))
      [] OTHER -> Step({}, toQ("q", n, VZero(dof(n))))

setDefaultMotionValues(m, n) == Step({}, toU("u", n, VZero(dof(n))))

\* The virtual setQ(mv, qIn, q).  RBNodeRotate3 overrides it; the setQ that
\* RBNodeTranslateRotate3 declares takes (q, mv, qIn) and overrides nothing,
\* so a call through the base class runs the default for that class.
setQ(m, n) ==
    IF ClassOfNode(n) = "RBNodeRotate3" /\ ~useEuler
    THEN LET R == QuatKeys("qIn", n) IN
         Step(R, toQuat("q", n, fromQuat(View(m, R), "qIn", n)))
    ELSE LET R == QKeys("qIn", n) IN
         Step(R, toQ("q", n, fromQ(View(m, R), "qIn", n)))

setU(m, n) ==
    LET R == UKeys("uIn", n) IN
    Step(R, toU("u", n, fromU(View(m, R), "uIn", n)))

(***************************************************************************)
(* Velocity kinematics.                                                    *)
(***************************************************************************)
Half == Inv[2]

\* RotationMat::convertAngVelToBodyFixed123Dot(q, w_PB_B): qdot = E(q) * w.
BodyFixed123E(q) ==
    LET s2 == Sin(q[2])  c2 == Cos(q[2])  s3 == Sin(q[3])  c3 == Cos(q[3])
        ooc2 == Inv[c2]
    IN <<<<F(c3 * ooc2), F(0 - s3 * ooc2), 0>>,
         <<s3, c3, 0>>,
         <<F(0 - s2 * c3 * ooc2), F(s2 * s3 * ooc2), 1>>>>
convertAngVelToBodyFixed123Dot(q, w) == MatVec(BodyFixed123E(q), w)

\* RotationMat::convertAngVelDotToBodyFixed123DotDot(q, w_PB_B, wdot):
\* qdotdot = E(q) * wdot + (d/dt E(q)) * w.
convertAngVelDotToBodyFixed123DotDot(q, w, wdot) ==
    LET s2 == Sin(q[2])  c2 == Cos(q[2])  s3 == Sin(q[3])  c3 == Cos(q[3])
        ooc2 == Inv[c2]
        qd == convertAngVelToBodyFixed123Dot(q, w)
        dsec == F(s2 * ooc2 * ooc2 * qd[2])        \* d/dt (1/c2)
        dtan == F(ooc2 * ooc2 * qd[2])             \* d/dt (s2/c2)
        Edot == <<<<F(0 - s3 * qd[3] * ooc2 + c3 * dsec),
                    F(0 - c3 * qd[3] * ooc2 - s3 * dsec), 0>>,
                  <<F(c3 * qd[3]), F(0 - s3 * qd[3]), 0>>,
                  <<F(0 - dtan * c3 + s2 * ooc2 * s3 * qd[3]),
                    F(dtan * s3 + s2 * ooc2 * c3 * qd[3]), 0>>>>
    IN VAdd(MatVec(BodyFixed123E(q), wdot), MatVec(Edot, w))

\* RotationMat::convertAngVelToQuaternionDot(q, w_PB_P): qdot = 0.5 * E(q) * w.
QuaternionE(q) ==
    <<<<F(0 - q[2]), F(0 - q[3]), F(0 - q[4])>>,
      <<q[1], q[4], F(0 - q[3])>>,
      <<F(0 - q[4]), q[1], q[2]>>,
      <<q[3], F(0 - q[2]), q[1]>>>>
convertAngVelToQuaternionDot(q, w) == VScale(Half, MatVec(QuaternionE(q), w))

\* RotationMat::convertAngVelDotToQuaternionDotDot(q, w_PB_P, wdot).
convertAngVelDotToQuaternionDotDot(q, w, wdot) ==
    LET qd == convertAngVelToQuaternionDot(q, w) IN
    VScale(Half, VAdd(MatVec(QuaternionE(qd), w), MatVec(QuaternionE(q), wdot)))

\* calcQDot: qdot = u by default; the ball-containing joints override it.
calcQDot(m, n) ==
    LET c == ClassOfNode(n) IN
    CASE c = "RBNodeRotate3" ->
            IF useEuler
            THEN LET R == UKeys("u", n) \cup QKeys("q", n) \cup {<<"X_JbJ", n>>}
                     v == View(m, R)
                     w_JbJ == fromU(v, "u", n)
                     R_JbJ == v[<<"X_JbJ", n>>].R
                 IN Step(R, toQ("qdot", n, convertAngVelToBodyFixed123Dot(
                                    fromQ(v, "q", n), MatVec(Transpose(R_JbJ), w_JbJ)))
                            @@ toQuat("qdot", n, VZero(4)))
            ELSE LET R == UKeys("u", n) \cup QuatKeys("q", n)
                     v == View(m, R)
                 IN Step(R, toQuat("qdot", n, convertAngVelToQuaternionDot(
                                    fromQuat(v, "q", n), fromU(v, "u", n))))
      [] c = "RBNodeTranslateRotate3" ->
            IF useEuler
            THEN LET R == UKeys("u", n) \cup QVec3Keys("q", n, 0) \cup {<<"X_JbJ", n>>}
                     v == View(m, R)
                     w_JbJ == fromUVec3(v, "u", n, 0)
                     v_JbJ == fromUVec3(v, "u", n, 3)
                     R_JbJ == v[<<"X_JbJ", n>>].R
                 IN Step(R, toQVec3("qdot", n, 3, v_JbJ)
                            @@ toQVec3("qdot", n, 4, VZero(3))
                            @@ toQVec3("qdot", n, 0, convertAngVelToBodyFixed123Dot(
                                    fromQVec3(v, "q", n, 0), MatVec(Transpose(R_JbJ), w_JbJ))))
            ELSE LET R == UKeys("u", n) \cup QuatKeys("q", n)
                     v == View(m, R)
                 IN Step(R, toQuat("qdot", n, convertAngVelToQuaternionDot(
                                    fromQuat(v, "q", n), fromUVec3(v, "u", n, 0)))
                            @@ toQVec3("qdot", n, 4, fromUVec3(v, "u", n, 3)))
      [] OTHER ->
            LET R == UKeys("u", n) IN
            Step(R, toQ("qdot", n, fromU(View(m, R), "u", n)))

\* A calcQDotDot whose default copies the speeds rather than their derivatives.
calcQDotDot_FromU(m, n) ==
    LET c == ClassOfNode(n) IN
    CASE c = "RBNodeRotate3" ->
            IF useEuler
            THEN LET R == UKeys("u", n) \cup UKeys("udot", n) \cup QKeys("q", n)
                            \cup {<<"X_JbJ", n>>}
                     v == View(m, R)
                     Rt == Transpose(v[<<"X_JbJ", n>>].R)
                 IN Step(R, toQ("qdotdot", n, convertAngVelDotToBodyFixed123DotDot(
                                    fromQ(v, "q", n), MatVec(Rt, fromU(v, "u", n)),
                                    MatVec(Rt, fromU(v, "udot", n))))
                            @@ toQuat("qdotdot", n, VZero(4)))
            ELSE LET R == UKeys("u", n) \cup UKeys("udot", n) \cup QuatKeys("q", n)
                     v == View(m, R)
                 IN Step(R, toQuat("qdotdot", n, convertAngVelDotToQuaternionDotDot(
                                    fromQuat(v, "q", n), fromU(v, "u", n), fromU(v, "udot", n))))
      [] c = "RBNodeTranslateRotate3" ->
            IF useEuler
            THEN LET R == UKeys("u", n) \cup UKeys("udot", n) \cup QVec3Keys("q", n, 0)
                            \cup {<<"X_JbJ", n>>}
                     v == View(m, R)
                     Rt == Transpose(v[<<"X_JbJ", n>>].R)
                 IN Step(R, toQVec3("qdotdot", n, 3, fromUVec3(v, "udot", n, 3))
                            @@ toQVec3("qdotdot", n, 4, VZero(3))
                            @@ toQVec3("qdotdot", n, 0, convertAngVelDotToBodyFixed123DotDot(
                                    fromQVec3(v, "q", n, 0), MatVec(Rt, fromUVec3(v, "u", n, 0)),
                                    MatVec(Rt, fromUVec3(v, "udot", n, 0)))))
            ELSE LET R == UKeys("u", n) \cup UKeys("udot", n) \cup QuatKeys("q", n)
                     v == View(m, R)
                 IN Step(R, toQuat("qdotdot", n, convertAngVelDotToQuaternionDotDot(
                                    fromQuat(v, "q", n), fromUVec3(v, "u", n, 0),
                                    fromUVec3(v, "udot", n, 0)))
                            @@ toQVec3("qdotdot", n, 4, fromUVec3(v, "udot", n, 3)))
      [] OTHER ->
            LET R == UKeys("u", n) IN
            Step(R, toQ("qdotdot", n, fromU(View(m, R), "u", n)))

\* calcQDotDot: qdotdot = udot by default; overridden together with calcQDot.
calcQDotDot(m, n) ==
    LET c == ClassOfNode(n) IN
    CASE c = "RBNodeRotate3" ->
            IF useEuler
            THEN LET R == UKeys("u", n) \cup UKeys("udot", n) \cup QKeys("q", n)
                            \cup {<<"X_JbJ", n>>}
                     v == View(m, R)
                     Rt == Transpose(v[<<"X_JbJ", n>>].R)
                 IN Step(R, toQ("qdotdot", n, convertAngVelDotToBodyFixed123DotDot(
                                    fromQ(v, "q", n), MatVec(Rt, fromU(v, "u", n)),
                                    MatVec(Rt, fromU(v, "udot", n))))
                            @@ toQuat("qdotdot", n, VZero(4)))
            ELSE LET R == UKeys("u", n) \cup UKeys("udot", n) \cup QuatKeys("q", n)
                     v == View(m, R)
                 IN Step(R, toQuat("qdotdot", n, convertAngVelDotToQuaternionDotDot(
                                    fromQuat(v, "q", n), fromU(v, "u", n), fromU(v, "udot", n))))
      [] c = "RBNodeTranslateRotate3" ->
            IF useEuler
            THEN LET R == UKeys("u", n) \cup UKeys("udot", n) \cup QVec3Keys("q", n, 0)
                            \cup {<<"X_JbJ", n>>}
                     v == View(m, R)
                     Rt == Transpose(v[<<"X_JbJ", n>>].R)
                 IN Step(R, toQVec3("qdotdot", n, 3, fromUVec3(v, "udot", n, 3))
                            @@ toQVec3("qdotdot", n, 4, VZero(3))
                            @@ toQVec3("qdotdot", n, 0, convertAngVelDotToBodyFixed123DotDot(
                                    fromQVec3(v, "q", n, 0), MatVec(Rt, fromUVec3(v, "u", n, 0)),
                                    MatVec(Rt, fromUVec3(v, "udot", n, 0)))))
            ELSE LET R == UKeys("u", n) \cup UKeys("udot", n) \cup QuatKeys("q", n)
                     v == View(m, R)
                 IN Step(R, toQuat("qdotdot", n, convertAngVelDotToQuaternionDotDot(
                                    fromQuat(v, "q", n), fromUVec3(v, "u", n, 0),
                                    fromUVec3(v, "udot", n, 0)))
                            @@ toQVec3("qdotdot", n, 4, fromUVec3(v, "udot", n, 3)))
      [] OTHER ->
            LET R == UKeys("udot", n) IN
            Step(R, toQ("qdotdot", n, fromU(View(m, R), "udot", n)))

\* V_PB_G = ~H * u
calcJointKinematicsVel(m, n) ==
    LET R == UKeys("storageForHt", n) \cup UKeys("u", n)
        v == View(m, R)
    IN Step(R, <<"V_PB_G", n>> :> MatVec(Transpose(getH(v, n)), fromU(v, "u", n)))

\* A velocity recursion that starts from Ground's velocity at every node.
calcJointIndependentKinematicsVel_FromGround(m, n) ==
    LET R == {<<"Phi", n>>, <<"V_GB", 0>>, <<"V_PB_G", n>>}
        v == View(m, R)
    IN Step(R, <<"V_GB", n>> :>
                VAdd(MatVec(Transpose(PhiMatrix(v[<<"Phi", n>>])), v[<<"V_GB", 0>>]),
                     v[<<"V_PB_G", n>>]))

\* V_GB = ~Phi * parent->V_GB + V_PB_G
calcJointIndependentKinematicsVel(m, n) ==
    LET R == {<<"Phi", n>>, <<"V_GB", Parent(n)>>, <<"V_PB_G", n>>}
        v == View(m, R)
    IN Step(R, <<"V_GB", n>> :>
                VAdd(MatVec(Transpose(PhiMatrix(v[<<"Phi", n>>])), v[<<"V_GB", Parent(n)>>]),
                     v[<<"V_PB_G", n>>]))

\* RigidBodyNodeSpec::setVelFromSVel: u = H * (sVel - ~Phi * parent->V_GB);
\* RBGroundBody's does nothing.
setVelFromSVel(m, n, sVel) ==
    IF ClassOfNode(n) = "RBGroundBody" THEN NoStep
    ELSE LET R == UKeys("storageForHt", n) \cup {<<"Phi", n>>, <<"V_GB", Parent(n)>>}
             v == View(m, R)
         IN Step(R, toU("u", n,
                        MatVec(getH(v, n),
                               VSub(sVel, MatVec(Transpose(PhiMatrix(v[<<"Phi", n>>])),
                                                 v[<<"V_GB", Parent(n)>>])))))

\* RigidBodyNodeSpec::realizeMotion; RBGroundBody's does nothing.
realizeMotion(st, n) ==
    IF ClassOfNode(n) = "RBGroundBody" THEN st
    ELSE LET op == "realizeMotion"
             s1 == Do(st, calcQDot(st.mem, n), n, op)
             s2 == Do(s1, calcJointKinematicsVel(s1.mem, n), n, op)
         IN Do(s2, calcJointIndependentKinematicsVel(s2.mem, n), n, op)

(***************************************************************************)
(* Dynamics: articulated body inertias, velocity-dependent terms, Y.       *)
(***************************************************************************)
RECURSIVE MSum(_, _)
MSum(terms, zero) ==
    IF terms = <<>> THEN zero ELSE MAdd(MSum(Tail(terms), zero), Head(terms))
RECURSIVE VSum(_, _)
VSum(terms, zero) ==
    IF terms = <<>> THEN zero ELSE VAdd(VSum(Tail(terms), zero), Head(terms))

\* A children loop that runs over every later node of the array.
ChildKeys_LaterNodes(arrs, n) == {<<a, c>> : a \in arrs, c \in {b \in Bodies : b > n}}
\* The entries of the named body-indexed arrays at the children of n.
ChildKeys(arrs, n) == {<<a, c>> : a \in arrs, c \in ChildSet(n)}

calcArticulatedBodyInertiasInward(m, n) ==
    IF ClassOfNode(n) = "RBGroundBody" THEN NoStep
    ELSE
    LET R == {<<"Mk", n>>, <<"Phi", n>>} \cup UKeys("storageForHt", n)
               \cup ChildKeys({"tauBar", "P", "Phi"}, n)
        v == View(m, R)
        ch == Children(n)
        fromChild(c) == MatMul(MatMul(PhiMatrix(v[<<"Phi", c>>]),
                                      MatMul(v[<<"tauBar", c>>], v[<<"P", c>>])),
                               Transpose(PhiMatrix(v[<<"Phi", c>>])))
        P == MAdd(v[<<"Mk", n>>], MSum(Tuple([i \in 1..Len(ch) |-> fromChild(ch[i])]), MZero(6, 6)))
        H == getH(v, n)
        PHt == MatMul(P, Transpose(H))
        D == MatMul(H, PHt)
        DI == invert(D)
        G == MatMul(PHt, DI)
        tauBar == MSub(Ident(6), MatMul(G, H))
        Psi == MatMul(PhiMatrix(v[<<"Phi", n>>]), tauBar)
    IN IF DI = <<>>
       THEN StepThrowing(R, (<<"P", n>> :> P) @@ toUSq("storageForD", n, D))
       ELSE Step(R, (<<"P", n>> :> P) @@ toUSq("storageForD", n, D)
                    @@ toUSq("storageForDI", n, DI) @@ updG(n, G)
                    @@ (<<"tauBar", n>> :> tauBar) @@ (<<"Psi", n>> :> Psi))

\* Mat33 * SpatialVec: the matrix applied to each half.
Mat33TimesSpatial(M, V) == SpatialVec(MatVec(M, Ang(V)), MatVec(M, Lin(V)))

\* The velocity-dependent terms without the branch for Ground.
calcGyroscopicAndCoriolis_NoGroundBranch(m, n) ==
    IF n = 0 THEN NoStep
    ELSE
    LET R == {<<"V_GB", n>>, <<"Inertia_OB_G", n>>, <<"CB_G", n>>,
              <<"V_GB", Parent(n)>>, <<"V_PB_G", n>>}
        v == View(m, R)
        omega == Ang(v[<<"V_GB", n>>])
        gMoment == cross(omega, MatVec(v[<<"Inertia_OB_G", n>>], omega))
        gForce == VScale(getMass(n), cross(omega, cross(omega, v[<<"CB_G", n>>])))
        pOmega == Ang(v[<<"V_GB", Parent(n)>>])
        vel == VSub(Lin(v[<<"V_GB", n>>]), Lin(v[<<"V_GB", Parent(n)>>]))
    IN Step(R, (<<"gyroscopicForce", n>> :> SpatialVec(gMoment, gForce))
               @@ (<<"coriolisAcceleration", n>> :>
                     VAdd(SpatialVec(VZero(3), cross(pOmega, vel)),
                          Mat33TimesSpatial(crossMat(omega), v[<<"V_PB_G", n>>]))))

\* A coriolis acceleration with the parent's angular velocity in both terms.
calcGyroscopicAndCoriolis_ParentOmega(m, n) ==
    IF n = 0
    THEN Step({}, (<<"gyroscopicForce", n>> :> SpatialZero)
                  @@ (<<"coriolisAcceleration", n>> :> SpatialZero))
    ELSE
    LET R == {<<"V_GB", n>>, <<"Inertia_OB_G", n>>, <<"CB_G", n>>,
              <<"V_GB", Parent(n)>>, <<"V_PB_G", n>>}
        v == View(m, R)
        omega == Ang(v[<<"V_GB", n>>])
        gMoment == cross(omega, MatVec(v[<<"Inertia_OB_G", n>>], omega))
        gForce == VScale(getMass(n), cross(omega, cross(omega, v[<<"CB_G", n>>])))
        pOmega == Ang(v[<<"V_GB", Parent(n)>>])
        vel == VSub(Lin(v[<<"V_GB", n>>]), Lin(v[<<"V_GB", Parent(n)>>]))
    IN Step(R, (<<"gyroscopicForce", n>> :> SpatialVec(gMoment, gForce))
               @@ (<<"coriolisAcceleration", n>> :>
                     VAdd(SpatialVec(VZero(3), cross(pOmega, vel)),
                          Mat33TimesSpatial(crossMat(pOmega), v[<<"V_PB_G", n>>]))))

\* gyroscopicForce and coriolisAcceleration of calcJointIndependentDynamicsVel.
calcGyroscopicAndCoriolis(m, n) ==
    IF n = 0
    THEN Step({}, (<<"gyroscopicForce", n>> :> SpatialZero)
                  @@ (<<"coriolisAcceleration", n>> :> SpatialZero))
    ELSE
    LET R == {<<"V_GB", n>>, <<"Inertia_OB_G", n>>, <<"CB_G", n>>,
              <<"V_GB", Parent(n)>>, <<"V_PB_G", n>>}
        v == View(m, R)
        omega == Ang(v[<<"V_GB", n>>])
        gMoment == cross(omega, MatVec(v[<<"Inertia_OB_G", n>>], omega))
        gForce == VScale(getMass(n), cross(omega, cross(omega, v[<<"CB_G", n>>])))
        pOmega == Ang(v[<<"V_GB", Parent(n)>>])
        vel == VSub(Lin(v[<<"V_GB", n>>]), Lin(v[<<"V_GB", Parent(n)>>]))
    IN Step(R, (<<"gyroscopicForce", n>> :> SpatialVec(gMoment, gForce))
               @@ (<<"coriolisAcceleration", n>> :>
                     VAdd(SpatialVec(VZero(3), cross(pOmega, vel)),
                          Mat33TimesSpatial(crossMat(omega), v[<<"V_PB_G", n>>]))))

\* Centrifugal forces from the parent's coriolis acceleration.
calcCentrifugalForces_ParentCoriolis(m, n) ==
    IF n = 0
    THEN Step({}, <<"centrifugalForces", n>> :> SpatialZero)
    ELSE
    LET R == {<<"P", n>>, <<"coriolisAcceleration", Parent(n)>>, <<"gyroscopicForce", n>>}
        v == View(m, R)
    IN Step(R, <<"centrifugalForces", n>> :>
                 VAdd(MatVec(v[<<"P", n>>], v[<<"coriolisAcceleration", Parent(n)>>]),
                      v[<<"gyroscopicForce", n>>]))

\* Centrifugal forces from the parent's articulated body inertia.
calcCentrifugalForces_ParentP(m, n) ==
    IF n = 0
    THEN Step({}, <<"centrifugalForces", n>> :> SpatialZero)
    ELSE
    LET R == {<<"P", Parent(n)>>, <<"coriolisAcceleration", n>>, <<"gyroscopicForce", n>>}
        v == View(m, R)
    IN Step(R, <<"centrifugalForces", n>> :>
                 VAdd(MatVec(v[<<"P", Parent(n)>>], v[<<"coriolisAcceleration", n>>]),
                      v[<<"gyroscopicForce", n>>]))

\* centrifugalForces = P * coriolisAcceleration + gyroscopicForce
calcCentrifugalForces(m, n) ==
    IF n = 0
    THEN Step({}, <<"centrifugalForces", n>> :> SpatialZero)
    ELSE
    LET R == {<<"P", n>>, <<"coriolisAcceleration", n>>, <<"gyroscopicForce", n>>}
        v == View(m, R)
    IN Step(R, <<"centrifugalForces", n>> :>
                 VAdd(MatVec(v[<<"P", n>>], v[<<"coriolisAcceleration", n>>]),
                      v[<<"gyroscopicForce", n>>]))

\* RigidBodyNode::calcJointIndependentDynamicsVel, the same for every class.
calcJointIndependentDynamicsVel(st, n) ==
    LET op == "calcJointIndependentDynamicsVel"
        s1 == Do(st, calcGyroscopicAndCoriolis(st.mem, n), n, op)
    IN Do(s1, calcCentrifugalForces(s1.mem, n), n, op)

\* Y = ~H * DI * H + ~Psi * parent->Y * Psi
calcYOutward(m, n) ==
    IF ClassOfNode(n) = "RBGroundBody" THEN NoStep
    ELSE
    LET R == UKeys("storageForHt", n) \cup USqKeys("storageForDI", n)
               \cup {<<"Psi", n>>, <<"Y", Parent(n)>>}
        v == View(m, R)
        H == getH(v, n)
        Psi == v[<<"Psi", n>>]
    IN Step(R, <<"Y", n>> :>
                 MAdd(MatMul(MatMul(Transpose(H), fromUSq(v, "storageForDI", n)), H),
                      MatMul(MatMul(Transpose(Psi), v[<<"Y", Parent(n)>>]), Psi)))

(***************************************************************************)
(* Reaction: the residual pass, the acceleration pass, and the operations  *)
(* working in arrays the caller supplies.                                  *)
(***************************************************************************)
\* Sum over the children c of n of phiChild * (zChild + GepsChild).
ShiftedFromChildren(v, n, zArr, gepsArr) ==
    LET ch == Children(n) IN
    VSum(Tuple([i \in 1..Len(ch) |->
                  MatVec(PhiMatrix(v[<<"Phi", ch[i]>>]),
                         VAdd(v[<<zArr, ch[i]>>], v[<<gepsArr, ch[i]>>]))]), SpatialZero)

\* A residual pass that adds the applied spatial force to the centrifugal force.
calcZ_ForceAdded(m, n, spatialForce) ==
    IF ClassOfNode(n) = "RBGroundBody" THEN NoStep
    ELSE
    LET R == {<<"centrifugalForces", n>>} \cup ChildKeys({"z", "Phi", "Gepsilon"}, n)
               \cup UKeys("appliedMobilityForces", n) \cup UKeys("storageForHt", n)
               \cup USqKeys("storageForDI", n) \cup UKeys("storageForG", n)
        v == View(m, R)
        z == VAdd(VAdd(v[<<"centrifugalForces", n>>], spatialForce),
                  ShiftedFromChildren(v, n, "z", "Gepsilon"))
        epsilon == VSub(fromU(v, "appliedMobilityForces", n), MatVec(getH(v, n), z))
    IN Step(R, (<<"z", n>> :> z) @@ toU("epsilon", n, epsilon)
               @@ toU("nu", n, MatVec(fromUSq(v, "storageForDI", n), epsilon))
               @@ (<<"Gepsilon", n>> :> MatVec(getG(v, n), epsilon)))

\* RigidBodyNodeSpec::calcZ; RBGroundBody's does nothing.
calcZ(m, n, spatialForce) ==
    IF ClassOfNode(n) = "RBGroundBody" THEN NoStep
    ELSE
    LET R == {<<"centrifugalForces", n>>} \cup ChildKeys({"z", "Phi", "Gepsilon"}, n)
               \cup UKeys("appliedMobilityForces", n) \cup UKeys("storageForHt", n)
               \cup USqKeys("storageForDI", n) \cup UKeys("storageForG", n)
        v == View(m, R)
        z == VAdd(VSub(v[<<"centrifugalForces", n>>], spatialForce),
                  ShiftedFromChildren(v, n, "z", "Gepsilon"))
        epsilon == VSub(fromU(v, "appliedMobilityForces", n), MatVec(getH(v, n), z))
    IN Step(R, (<<"z", n>> :> z) @@ toU("epsilon", n, epsilon)
               @@ toU("nu", n, MatVec(fromUSq(v, "storageForDI", n), epsilon))
               @@ (<<"Gepsilon", n>> :> MatVec(getG(v, n), epsilon)))

\* udot and A_GB of calcAccel.
\* calcAccel starting from the node's own stored acceleration.
calcAccelUDot_OwnAcceleration(m, n) ==
    LET R == {<<"Phi", n>>, <<"A_GB", n>>, <<"coriolisAcceleration", n>>}
               \cup UKeys("nu", n) \cup UKeys("storageForG", n) \cup UKeys("storageForHt", n)
        v == View(m, R)
        alphap == MatVec(Transpose(PhiMatrix(v[<<"Phi", n>>])), v[<<"A_GB", n>>])
        udot == VSub(fromU(v, "nu", n), MatVec(Transpose(getG(v, n)), alphap))
    IN Step(R, toU("udot", n, udot)
               @@ (<<"A_GB", n>> :>
                     VAdd(VAdd(alphap, MatVec(Transpose(getH(v, n)), udot)),
                          v[<<"coriolisAcceleration", n>>])))

calcAccelUDot(m, n) ==
    LET R == {<<"Phi", n>>, <<"A_GB", Parent(n)>>, <<"coriolisAcceleration", n>>}
               \cup UKeys("nu", n) \cup UKeys("storageForG", n) \cup UKeys("storageForHt", n)
        v == View(m, R)
        alphap == MatVec(Transpose(PhiMatrix(v[<<"Phi", n>>])), v[<<"A_GB", Parent(n)>>])
        udot == VSub(fromU(v, "nu", n), MatVec(Transpose(getG(v, n)), alphap))
    IN Step(R, toU("udot", n, udot)
               @@ (<<"A_GB", n>> :>
                     VAdd(VAdd(alphap, MatVec(Transpose(getH(v, n)), udot)),
                          v[<<"coriolisAcceleration", n>>])))

\* A calcAccel that converts udot into qdotdot before it has computed udot.
calcAccel_QDotDotFirst(st, n) ==
    IF ClassOfNode(n) = "RBGroundBody" THEN st
    ELSE LET op == "calcAccel"
             s1 == Do(st, calcQDotDot(st.mem, n), n, op)
         IN Do(s1, calcAccelUDot(s1.mem, n), n, op)

\* RigidBodyNodeSpec::calcAccel; RBGroundBody's does nothing.
calcAccel(st, n) ==
    IF ClassOfNode(n) = "RBGroundBody" THEN st
    ELSE LET op == "calcAccel"
             s1 == Do(st, calcAccelUDot(st.mem, n), n, op)
         IN Do(s1, calcQDotDot(s1.mem, n), n, op)

\* The arrays a caller hands to the array-argument operations.
CallerArrays == [jointForces |-> "jointForces", bodyForces |-> "bodyForces",
                 allZ |-> "allZ", allGepsilon |-> "allGepsilon",
                 allEpsilon |-> "allEpsilon", allA_GB |-> "allA_GB",
                 allUDot |-> "allUDot", zTmp |-> "zTmp", X |-> "X", JX |-> "JX",
                 eqZ |-> "eqZ", eqGepsilon |-> "eqGepsilon",
                 eqJointForces |-> "eqJointForces"]
\* The arrays of a second, independent evaluation of the two udot passes.
CallerArrays2 == [jointForces |-> "jointForces2", bodyForces |-> "bodyForces2",
                  allZ |-> "allZ2", allGepsilon |-> "allGepsilon2",
                  allEpsilon |-> "allEpsilon2", allA_GB |-> "allA_GB2",
                  allUDot |-> "allUDot2"]

calcUDotPass1Inward(m, n, a) ==
    IF ClassOfNode(n) = "RBGroundBody"
    THEN LET R == {<<a.bodyForces, 0>>} IN
         Step(R, (<<a.allZ, 0>> :> VNeg(View(m, R)[<<a.bodyForces, 0>>]))
                 @@ (<<a.allGepsilon, 0>> :> SpatialZero))
    ELSE
    LET R == UKeys(a.jointForces, n) \cup {<<a.bodyForces, n>>, <<"centrifugalForces", n>>}
               \cup ChildKeys({"Phi", a.allZ, a.allGepsilon}, n)
               \cup UKeys("storageForHt", n) \cup UKeys("storageForG", n)
        v == View(m, R)
        z == VAdd(VSub(v[<<"centrifugalForces", n>>], v[<<a.bodyForces, n>>]),
                  ShiftedFromChildren(v, n, a.allZ, a.allGepsilon))
        eps == VSub(fromU(v, a.jointForces, n), MatVec(getH(v, n), z))
    IN Step(R, (<<a.allZ, n>> :> z) @@ toU(a.allEpsilon, n, eps)
               @@ (<<a.allGepsilon, n>> :> MatVec(getG(v, n), eps)))

\* A parent acceleration that is never shifted in: zero at every node.
ParentAcceleration_Zero(m, n, a) == [reads |-> {}, A_GP |-> SpatialZero]

\* A parent acceleration taken from the array of the first evaluation.
ParentAcceleration_OneArray(m, n, a) ==
    IF Parent(n) = 0 THEN [reads |-> {}, A_GP |-> SpatialZero]
    ELSE LET R == {<<"Phi", n>>, <<"allA_GB", Parent(n)>>}
             v == View(m, R)
         IN [reads |-> R,
             A_GP |-> MatVec(Transpose(PhiMatrix(v[<<"Phi", n>>])), v[<<"allA_GB", Parent(n)>>])]

\* A_GP of calcUDotPass2Outward: zero for a child of Ground, else the parent's
\* entry of allA_GB shifted by ~Phi.
ParentAcceleration(m, n, a) ==
    IF Parent(n) = 0 THEN [reads |-> {}, A_GP |-> SpatialZero]
    ELSE LET R == {<<"Phi", n>>, <<a.allA_GB, Parent(n)>>}
             v == View(m, R)
         IN [reads |-> R,
             A_GP |-> MatVec(Transpose(PhiMatrix(v[<<"Phi", n>>])), v[<<a.allA_GB, Parent(n)>>])]

calcUDotPass2Outward(m, n, a) ==
    IF ClassOfNode(n) = "RBGroundBody"
    THEN Step({}, <<a.allA_GB, 0>> :> SpatialZero)
    ELSE
    LET fromParent == ParentAcceleration(m, n, a)
        R == UKeys(a.allEpsilon, n) \cup USqKeys("storageForDI", n)
               \cup UKeys("storageForG", n) \cup UKeys("storageForHt", n)
               \cup {<<"coriolisAcceleration", n>>}
        v == View(m, R)
        A_GP == fromParent.A_GP
        udot == VSub(MatVec(fromUSq(v, "storageForDI", n), fromU(v, a.allEpsilon, n)),
                     MatVec(Transpose(getG(v, n)), A_GP))
    IN Step(R \cup fromParent.reads,
            toU(a.allUDot, n, udot)
               @@ (<<a.allA_GB, n>> :>
                     VAdd(VAdd(A_GP, MatVec(Transpose(getH(v, n)), udot)),
                          v[<<"coriolisAcceleration", n>>])))

\* A gradient pass that keeps its running sum in the reaction cache.
calcInternalGradientFromSpatial_IntoCache(m, n, a) ==
    IF ClassOfNode(n) = "RBGroundBody" THEN NoStep
    ELSE
    LET R == {<<a.X, n>>} \cup ChildKeys({"z", "Phi"}, n) \cup UKeys("storageForHt", n)
        v == View(m, R)
        ch == Children(n)
        z == VAdd(v[<<a.X, n>>],
                  VSum(Tuple([i \in 1..Len(ch) |->
                          MatVec(PhiMatrix(v[<<"Phi", ch[i]>>]), v[<<"z", ch[i]>>])]),
                       SpatialZero))
    IN Step(R, (<<"z", n>> :> z) @@ toU(a.JX, n, MatVec(getH(v, n), z)))

\* A gradient pass that adds to what the caller's JX holds.
calcInternalGradientFromSpatial_Accumulating(m, n, a) ==
    IF ClassOfNode(n) = "RBGroundBody" THEN NoStep
    ELSE
    LET R == {<<a.X, n>>} \cup ChildKeys({a.zTmp, "Phi"}, n) \cup UKeys("storageForHt", n)
               \cup UKeys(a.JX, n)
        v == View(m, R)
        ch == Children(n)
        z == VAdd(v[<<a.X, n>>],
                  VSum(Tuple([i \in 1..Len(ch) |->
                          MatVec(PhiMatrix(v[<<"Phi", ch[i]>>]), v[<<a.zTmp, ch[i]>>])]),
                       SpatialZero))
    IN Step(R, (<<a.zTmp, n>> :> z) @@ toU(a.JX, n, VAdd(fromU(v, a.JX, n), MatVec(getH(v, n), z))))

calcInternalGradientFromSpatial(m, n, a) ==
    IF ClassOfNode(n) = "RBGroundBody" THEN NoStep
    ELSE
    LET R == {<<a.X, n>>} \cup ChildKeys({a.zTmp, "Phi"}, n) \cup UKeys("storageForHt", n)
        v == View(m, R)
        ch == Children(n)
        z == VAdd(v[<<a.X, n>>],
                  VSum(Tuple([i \in 1..Len(ch) |->
                          MatVec(PhiMatrix(v[<<"Phi", ch[i]>>]), v[<<a.zTmp, ch[i]>>])]),
                       SpatialZero))
    IN Step(R, (<<a.zTmp, n>> :> z) @@ toU(a.JX, n, MatVec(getH(v, n), z)))

\* Equivalent joint forces that start from the centrifugal force as the udot pass does.
calcEquivalentJointForces_WithCentrifugal(m, n, a) ==
    IF ClassOfNode(n) = "RBGroundBody"
    THEN LET R == {<<a.bodyForces, 0>>} IN
         Step(R, (<<a.eqZ, 0>> :> View(m, R)[<<a.bodyForces, 0>>])
                 @@ (<<a.eqGepsilon, 0>> :> SpatialZero))
    ELSE
    LET R == {<<a.bodyForces, n>>, <<"centrifugalForces", n>>}
               \cup ChildKeys({"Phi", a.eqZ, a.eqGepsilon}, n)
               \cup UKeys("storageForHt", n) \cup UKeys("storageForG", n)
        v == View(m, R)
        z == VAdd(VAdd(v[<<"centrifugalForces", n>>], v[<<a.bodyForces, n>>]),
                  ShiftedFromChildren(v, n, a.eqZ, a.eqGepsilon))
        eps == MatVec(getH(v, n), z)
    IN Step(R, (<<a.eqZ, n>> :> z) @@ toU(a.eqJointForces, n, eps)
               @@ (<<a.eqGepsilon, n>> :> MatVec(getG(v, n), eps)))

calcEquivalentJointForces(m, n, a) ==
    IF ClassOfNode(n) = "RBGroundBody"
    THEN LET R == {<<a.bodyForces, 0>>} IN
         Step(R, (<<a.eqZ, 0>> :> View(m, R)[<<a.bodyForces, 0>>])
                 @@ (<<a.eqGepsilon, 0>> :> SpatialZero))
    ELSE
    LET R == {<<a.bodyForces, n>>} \cup ChildKeys({"Phi", a.eqZ, a.eqGepsilon}, n)
               \cup UKeys("storageForHt", n) \cup UKeys("storageForG", n)
        v == View(m, R)
        z == VAdd(v[<<a.bodyForces, n>>], ShiftedFromChildren(v, n, a.eqZ, a.eqGepsilon))
        eps == MatVec(getH(v, n), z)
    IN Step(R, (<<a.eqZ, n>> :> z) @@ toU(a.eqJointForces, n, eps)
               @@ (<<a.eqGepsilon, n>> :> MatVec(getG(v, n), eps)))

(***************************************************************************)
(* The passes.  The stage order and the direction of each pass are the     *)
(* caller's; every operation is applied to one node at a time.             *)
(***************************************************************************)
PassOrder == <<"setDefaultConfigurationValues", "setDefaultMotionValues", "setQ", "setU",
               "realizeConfiguration", "realizeMotion",
               "calcArticulatedBodyInertiasInward", "calcJointIndependentDynamicsVel",
               "calcYOutward", "calcZ", "calcAccel",
               "calcUDotPass1Inward", "calcUDotPass2Outward",
               "calcInternalGradientFromSpatial", "calcEquivalentJointForces">>

SetterOps == {"setDefaultConfigurationValues", "setDefaultMotionValues", "setQ", "setU"}
OutwardOps == {"realizeConfiguration", "realizeMotion", "calcYOutward", "calcAccel",
               "calcUDotPass2Outward"}
InwardOps == {"calcArticulatedBodyInertiasInward", "calcZ", "calcUDotPass1Inward",
              "calcInternalGradientFromSpatial", "calcEquivalentJointForces"}
ArrayOps == {"calcUDotPass1Inward", "calcUDotPass2Outward",
             "calcInternalGradientFromSpatial", "calcEquivalentJointForces"}

CurrentOp == IF pass \in 1..Len(PassOrder) THEN PassOrder[pass] ELSE "none"

\* The nodes a pass goes over: the setters are RigidBodyNodeSpec's.
PassNodes(op) == IF op \in SetterOps THEN Bodies ELSE Nodes

\* Operation op applied to node n, continuing the run st.
Apply(op, st, n) ==
    CASE op = "setDefaultConfigurationValues" ->
            Do(st, setDefaultConfigurationValues(st.mem, n), n, op)
      [] op = "setDefaultMotionValues" -> Do(st, setDefaultMotionValues(st.mem, n), n, op)
      [] op = "setQ" -> Do(st, setQ(st.mem, n), n, op)
      [] op = "setU" -> Do(st, setU(st.mem, n), n, op)
      [] op = "realizeConfiguration" -> realizeConfiguration(st, n)
      [] op = "realizeMotion" -> realizeMotion(st, n)
      [] op = "calcArticulatedBodyInertiasInward" ->
            Do(st, calcArticulatedBodyInertiasInward(st.mem, n), n, op)
      [] op = "calcJointIndependentDynamicsVel" -> calcJointIndependentDynamicsVel(st, n)
      [] op = "calcYOutward" -> Do(st, calcYOutward(st.mem, n), n, op)
      [] op = "calcZ" -> Do(st, calcZ(st.mem, n, st.mem[<<"bodyForces", n>>]), n, op)
      [] op = "calcAccel" -> calcAccel(st, n)
      [] op = "calcUDotPass1Inward" ->
            Do(st, calcUDotPass1Inward(st.mem, n, CallerArrays), n, op)
      [] op = "calcUDotPass2Outward" ->
            Do(st, calcUDotPass2Outward(st.mem, n, CallerArrays), n, op)
      [] op = "calcInternalGradientFromSpatial" ->
            Do(st, calcInternalGradientFromSpatial(st.mem, n, CallerArrays), n, op)
      [] op = "calcEquivalentJointForces" ->
            Do(st, calcEquivalentJointForces(st.mem, n, CallerArrays), n, op)

\* The node may be visited now: base to tip after its parent, tip to base
\* after all its children, the setters in the order of the node array.
Ready(op, n) ==
    CASE op \in OutwardOps -> n = 0 \/ Parent(n) \in done
      [] op \in InwardOps  -> ChildSet(n) \subseteq done
      [] op \in SetterOps  -> \A k \in Bodies : k < n => k \in done
      [] OTHER             -> TRUE

\* One call of operation op on node n by the caller; st is the run of the
\* operation on the arrays as they are.
Visit(op, n, st) ==
    /\ ~aborted
    /\ CurrentOp = op
    /\ n \in PassNodes(op) \ done
    /\ Ready(op, n)
    /\ mem' = st.mem
    /\ tag' = st.tag
    /\ lastOp' = [op |-> op, node |-> n, reads |-> st.reads, writes |-> st.writes]
    /\ aborted' = st.threw
    /\ done' = done \cup {n}
    /\ UNCHANGED <<tree, pass, memAtStart, evals, assertsOn, useEuler, nextUSlot, nextUSqSlot,
                   nextQSlot, created, lastCall>>

RunSetDefaultConfigurationValues(n) ==
    Visit("setDefaultConfigurationValues", n,
          Do(StartRun, setDefaultConfigurationValues(mem, n), n, "setDefaultConfigurationValues"))
RunSetDefaultMotionValues(n) ==
    Visit("setDefaultMotionValues", n,
          Do(StartRun, setDefaultMotionValues(mem, n), n, "setDefaultMotionValues"))
RunSetQ(n) == Visit("setQ", n, Do(StartRun, setQ(mem, n), n, "setQ"))
RunSetU(n) == Visit("setU", n, Do(StartRun, setU(mem, n), n, "setU"))
RunRealizeConfiguration(n) == Visit("realizeConfiguration", n, realizeConfiguration(StartRun, n))
RunRealizeMotion(n) == Visit("realizeMotion", n, realizeMotion(StartRun, n))
RunCalcArticulatedBodyInertiasInward(n) ==
    Visit("calcArticulatedBodyInertiasInward", n,
          Do(StartRun, calcArticulatedBodyInertiasInward(mem, n), n,
             "calcArticulatedBodyInertiasInward"))
RunCalcJointIndependentDynamicsVel(n) ==
    Visit("calcJointIndependentDynamicsVel", n, calcJointIndependentDynamicsVel(StartRun, n))
RunCalcYOutward(n) == Visit("calcYOutward", n, Do(StartRun, calcYOutward(mem, n), n, "calcYOutward"))
RunCalcZ(n) ==
    Visit("calcZ", n, Do(StartRun, calcZ(mem, n, mem[<<"bodyForces", n>>]), n, "calcZ"))
RunCalcAccel(n) == Visit("calcAccel", n, calcAccel(StartRun, n))
RunCalcUDotPass1Inward(n) ==
    Visit("calcUDotPass1Inward", n,
          Do(StartRun, calcUDotPass1Inward(mem, n, CallerArrays), n, "calcUDotPass1Inward"))
RunCalcUDotPass2Outward(n) ==
    Visit("calcUDotPass2Outward", n,
          Do(StartRun, calcUDotPass2Outward(mem, n, CallerArrays), n, "calcUDotPass2Outward"))
RunCalcInternalGradientFromSpatial(n) ==
    Visit("calcInternalGradientFromSpatial", n,
          Do(StartRun, calcInternalGradientFromSpatial(mem, n, CallerArrays), n,
             "calcInternalGradientFromSpatial"))
RunCalcEquivalentJointForces(n) ==
    Visit("calcEquivalentJointForces", n,
          Do(StartRun, calcEquivalentJointForces(mem, n, CallerArrays), n,
             "calcEquivalentJointForces"))

PassComplete == pass \in 1..Len(PassOrder) /\ done = PassNodes(CurrentOp) /\ ~aborted

\* The caller goes on to the next pass once every node has been visited.
NextPass ==
    /\ PassComplete
    /\ pass < Len(PassOrder)
    /\ pass' = pass + 1
    /\ done' = {}
    /\ memAtStart' = mem
    /\ lastOp' = NoOp
    /\ UNCHANGED <<tree, mem, tag, evals, varsCreate>>

Next ==
    \/ \E n \in Nodes : RunSetDefaultConfigurationValues(n)
    \/ \E n \in Nodes : RunSetDefaultMotionValues(n)
    \/ \E n \in Nodes : RunSetQ(n)
    \/ \E n \in Nodes : RunSetU(n)
    \/ \E n \in Nodes : RunRealizeConfiguration(n)
    \/ \E n \in Nodes : RunRealizeMotion(n)
    \/ \E n \in Nodes : RunCalcArticulatedBodyInertiasInward(n)
    \/ \E n \in Nodes : RunCalcJointIndependentDynamicsVel(n)
    \/ \E n \in Nodes : RunCalcYOutward(n)
    \/ \E n \in Nodes : RunCalcZ(n)
    \/ \E n \in Nodes : RunCalcAccel(n)
    \/ \E n \in Nodes : RunCalcUDotPass1Inward(n)
    \/ \E n \in Nodes : RunCalcUDotPass2Outward(n)
    \/ \E n \in Nodes : RunCalcInternalGradientFromSpatial(n)
    \/ \E n \in Nodes : RunCalcEquivalentJointForces(n)
    \/ NextPass

(***************************************************************************)
(* The trees, mass properties and inputs the passes are run on.            *)
(***************************************************************************)
\* parent[i] for the bodies 1..NumBodies, created in this order after Ground.
Shapes == {p \in [1..NumBodies -> 0..(NumBodies - 1)] : \A i \in 1..NumBodies : p[i] < i}

\* Joint types handed to create for the bodies 1..NumBodies: a stretch of the
\* cycle of supported types, from each of a few starting points.
TypeCycle == <<"Torsion", "Universal", "Cartesian", "Sliding", "Orientation", "FreeLine", "Free">>
LineupFrom(k) == [i \in 1..NumBodies |-> TypeCycle[((k + i - 2) % Len(TypeCycle)) + 1]]
Lineups == {LineupFrom(k) : k \in {1, 4, 6, 7}}

Seeds == {1}

\* A number of the field drawn from a seed.
Rnd(seed, i) == (seed * 13 + i * 7 + i * i * 5 + 3) % Modulus
RndVec(seed, i, len, range) == Tuple([j \in 1..len |-> Rnd(seed, i + j) % range])

\* Quaternions whose norm exists in the field; not all of unit length.
Quaternions == <<<<1, 0, 0, 0>>, <<1, 1, 0, 0>>, <<0, 3, 4, 0>>, <<2, 0, 0, 0>>, <<1, 2, 2, 0>>>>

\* Rotations a caller hands to setMobilizerConfiguration: quarter and half
\* turns and rotations by other angles.
MobilizerRotations ==
    <<RotationAboutZ(2),
      MatMul(RotationAboutX(1), QuaternionToRotation(Quaternions[5])),
      MatMul(RotationAboutX(2), QuaternionToRotation(Quaternions[3])),
      MatMul(RotationAboutY(1), QuaternionToRotation(Quaternions[2]))>>

QuarterTurns(seed, i) == <<Rnd(seed, i) % 4, 2 * (Rnd(seed, i + 1) % 2), Rnd(seed, i + 2) % 4>>

\* create, called for Ground and then for each joint type of the lineup.
RECURSIVE CreateAll(_, _, _, _)
CreateAll(lineup, i, c, nodes) ==
    IF i > Len(lineup) THEN [nodes |-> nodes, counters |-> c]
    ELSE CreateAll(lineup, i + 1, updateSlots(ClassOf(lineup[i]), c),
                   Append(nodes, NodeSpecCtor(ClassOf(lineup[i]), c)))

BodyFrame(seed, i) ==
    LET k == Rnd(seed, i) % 4
        axis == Rnd(seed, i + 1) % 3
        R == CASE axis = 0 -> RotationAboutX(k) [] axis = 1 -> RotationAboutY(k)
               [] OTHER -> RotationAboutZ(k)
    IN Transform(R, RndVec(seed, i + 2, 3, 3))

\* Mass properties and the two joint frames of body n.
BodyOf(sc, n) ==
    IF n = 0 \/ (sc.massless /\ n = NumBodies)
    THEN [mass |-> 0, COM_B |-> VZero(3), Inertia_OB_B |-> MZero(3, 3),
          X_PJb |-> IF n = 0 THEN IdentityTransform ELSE BodyFrame(sc.seed, 3 * n),
          X_BJ |-> IF n = 0 THEN IdentityTransform ELSE BodyFrame(sc.seed, 5 * n)]
    ELSE LET d == RndVec(sc.seed, 7 * n, 3, 4)
             o == Rnd(sc.seed, 11 * n) % 2
         IN [mass |-> 1 + (Rnd(sc.seed, n) % 5),
             COM_B |-> RndVec(sc.seed, 2 * n, 3, 3),
             Inertia_OB_B |-> <<<<1 + d[1], o, 0>>, <<o, 1 + d[2], 0>>, <<0, 0, 1 + d[3]>>>>,
             X_PJb |-> BodyFrame(sc.seed, 3 * n),
             X_BJ |-> BodyFrame(sc.seed, 5 * n)]

TreeOf(sc, g) ==
    LET made == CreateAll(sc.lineup, 1, [u |-> 0, uSq |-> 0, q |-> 0], <<>>) IN
    [N |-> NumBodies,
     parent |-> [n \in 0..NumBodies |-> IF n = 0 THEN 0 ELSE sc.parent[n]],
     node |-> [n \in 0..NumBodies |-> IF n = 0 THEN GroundCtor(g) ELSE made.nodes[n]],
     body |-> [n \in 0..NumBodies |-> BodyOf(sc, n)],
     nU |-> made.counters.u, nUSq |-> made.counters.uSq, nQ |-> made.counters.q]

\* The coordinates the caller supplies for node n, maxNQ of them.
QInOf(sc, n) ==
    LET c == ClassOfNode(n)
        s == sc.seed + n
    IN CASE c = "RBNodeTranslate" -> RndVec(s, 1, 3, Modulus)
         [] c = "RBNodeSlider" -> RndVec(s, 2, 1, Modulus)
         [] c = "RBNodeTorsion" -> RndVec(s, 3, 1, 4)
         [] c = "RBNodeRotate2" -> RndVec(s, 4, 2, 4)
         [] c = "RBNodeTranslateRotate2" -> RndVec(s, 5, 2, 4) \o RndVec(s, 6, 3, Modulus)
         [] c = "RBNodeRotate3" ->
                IF useEuler THEN QuarterTurns(s, 7) \o <<0>>
                ELSE Quaternions[1 + (Rnd(s, 8) % Len(Quaternions))]
         [] c = "RBNodeTranslateRotate3" ->
                IF useEuler THEN QuarterTurns(s, 9) \o RndVec(s, 10, 3, Modulus) \o <<0>>
                ELSE Quaternions[1 + (Rnd(s, 11) % Len(Quaternions))] \o RndVec(s, 12, 3, Modulus)

AllKeys ==
    {<<a, n>> : a \in BodyArrays, n \in Nodes}
      \cup {<<a, i>> : a \in UArrays, i \in 0..(tree.nU - 1)}
      \cup {<<a, i>> : a \in QArrays, i \in 0..(tree.nQ - 1)}
      \cup {<<a, i>> : a \in USqArrays, i \in 0..(tree.nUSq - 1)}

\* What the caller supplies, what the owner of the caches puts in Ground's
\* entries, and what an entry holds before anything is stored in it.
CallerInputs == {"qIn", "uIn", "appliedMobilityForces", "jointForces", "bodyForces", "X",
                 "jointForces2", "bodyForces2", "argX_JbJ", "argV_JbJ"}
OwnerEntries == {<<"X_GB", 0>>, <<"V_GB", 0>>, <<"Y", 0>>, <<"A_GB", 0>>}
Unset(a) ==
    LET junk(len) == Tuple([i \in 1..len |-> 17])
        junkMat(len) == Tuple([i \in 1..len |-> junk(len)])
    IN CASE a \in {"X_JbJ", "X_PB", "X_GB"} -> Transform(junkMat(3), junk(3))
         [] a \in {"Phi", "CB_G", "COM_G"} -> junk(3)
         [] a = "Inertia_OB_G" -> junkMat(3)
         [] a \in {"Mk", "P", "tauBar", "Psi", "Y"} -> junkMat(6)
         [] a = "prescribed" -> FALSE
         [] a \in BodyArrays \cup {"storageForHt", "storageForG"} -> junk(6)
         [] OTHER -> 17

InitialValue(sc, k) ==
    LET a == k[1]  i == k[2] IN
    CASE a = "qIn" ->
            LET n == CHOOSE b \in Bodies : qIndex(b) <= i /\ i < qIndex(b) + maxNQ(b)
            IN QInOf(sc, n)[i - qIndex(n) + 1]
      [] a = "uIn" -> IF sc.still THEN 0 ELSE Rnd(sc.seed, 20 + i) % 3
      [] a \in {"appliedMobilityForces", "jointForces"} ->
            IF sc.still THEN 0 ELSE Rnd(sc.seed, 40 + i)
      [] a = "bodyForces" ->
            IF sc.still THEN SpatialZero ELSE RndVec(sc.seed, 50 + 6 * i, 6, Modulus)
      [] a = "jointForces2" -> Rnd(sc.seed, 60 + i)
      [] a = "bodyForces2" -> RndVec(sc.seed, 70 + 6 * i, 6, Modulus)
      [] a = "X" -> RndVec(sc.seed, 80 + 6 * i, 6, Modulus)
      [] a = "argX_JbJ" ->
            Transform(MobilizerRotations[1 + ((sc.seed + i) % Len(MobilizerRotations))],
                      RndVec(sc.seed, 94 + 3 * i, 3, Modulus))
      [] a = "argV_JbJ" -> RndVec(sc.seed, 100 + 6 * i, 6, Modulus)
      [] k = <<"X_GB", 0>> -> IdentityTransform
      [] k \in {<<"V_GB", 0>>, <<"A_GB", 0>>} -> SpatialZero
      [] k = <<"Y", 0>> -> MZero(6, 6)
      [] OTHER -> Unset(a)

InitialTag(k) ==
    IF k[1] \in CallerInputs THEN <<-1, "caller">>
    ELSE IF k \in OwnerEntries THEN <<-1, "owner">>
    ELSE <<-1, "unset">>

\* A scenario is a tree shape, the joint types, the numbers the caller
\* supplies (all speeds and forces zero when still), and the modeling choice.
AllScenarios ==
    {sc \in [parent : Shapes, lineup : Lineups, seed : Seeds, massless : BOOLEAN,
             euler : BOOLEAN, still : BOOLEAN] :
        /\ sc.massless => sc.seed = 1 /\ \A i \in 1..NumBodies : sc.parent[i] = i - 1
        /\ sc.euler => \E i \in 1..NumBodies : sc.lineup[i] \in {"Free", "Orientation"}}
Scenarios == {sc \in AllScenarios : ~sc.still}

\* The state once the tree is built by create and its storage is allocated.
\* None of the operations run on the tree from here on contains an assert, so
\* the build without them stands for both.
Start(sc, g) ==
    /\ assertsOn = FALSE
    /\ useEuler = sc.euler
    /\ tree = TreeOf(sc, g)
    /\ created = <<tree.node[0]>> \o [n \in 1..NumBodies |-> tree.node[n]]
    /\ nextUSlot = tree.nU
    /\ nextUSqSlot = tree.nUSq
    /\ nextQSlot = tree.nQ
    /\ lastCall = [type |-> sc.lineup[NumBodies], isReversed |-> FALSE,
                   before |-> [u |-> tree.node[NumBodies].uIndex,
                               uSq |-> tree.node[NumBodies].uSqIndex,
                               q |-> tree.node[NumBodies].qIndex],
                   outcome |-> "node"]
    /\ aborted = FALSE
    /\ mem = [k \in AllKeys |-> InitialValue(sc, k)]
    /\ tag = [k \in AllKeys |-> InitialTag(k)]
    /\ pass = 1
    /\ done = {}
    /\ memAtStart = mem
    /\ lastOp = NoOp
    /\ evals = NoEvals

Init == \E sc \in Scenarios, g \in GroundIndexValues : Start(sc, g)

Spec == Init /\ [][Next]_vars

\* The same passes on a tree at rest: every speed and every applied force zero.
ScenariosStill == {sc \in AllScenarios : sc.still /\ ~sc.massless}
InitStill == \E sc \in ScenariosStill, g \in GroundIndexValues : Start(sc, g)
SpecStill == InitStill /\ [][Next]_vars

\* One fixed order that respects the direction of the pass: the node array
\* from Ground on for a base-to-tip pass, backwards for a tip-to-base pass.
\* An exception ends the pass.
RECURSIVE InArrayOrder(_, _, _, _)
InArrayOrder(op, st, n, last) ==
    IF st.threw \/ n > last THEN st
    ELSE InArrayOrder(op, IF n \in PassNodes(op) THEN Apply(op, st, n) ELSE st, n + 1, last)
RECURSIVE InReverseArrayOrder(_, _, _)
InReverseArrayOrder(op, st, n) ==
    IF st.threw \/ n < 0 THEN st
    ELSE InReverseArrayOrder(op, IF n \in PassNodes(op) THEN Apply(op, st, n) ELSE st, n - 1)
WholePass(op, st) ==
    IF op \in InwardOps THEN InReverseArrayOrder(op, st, tree.N)
    ELSE InArrayOrder(op, st, 0, tree.N)

RunFrom(m, t) == [mem |-> m, tag |-> t, reads |-> {}, writes |-> {}, threw |-> FALSE]

(***************************************************************************)
(* Two evaluations of calcUDotPass1Inward / calcUDotPass2Outward over the  *)
(* same tree and caches, each with its own arrays, their steps interleaved.*)
(* Once the caches are realized, pass is past the last pass of PassOrder   *)
(* and evals counts the steps each evaluation has taken.                   *)
(***************************************************************************)
EvalLength == 2 * (tree.N + 1)
\* Step i of an evaluation: Pass1 from the last node back to Ground, then
\* Pass2 from Ground to the last node.
EvalOp(i) == IF i <= tree.N + 1 THEN "calcUDotPass1Inward" ELSE "calcUDotPass2Outward"
EvalNode(i) == IF i <= tree.N + 1 THEN tree.N + 1 - i ELSE i - (tree.N + 2)
ApplyEval(a, st, i) ==
    IF i <= tree.N + 1
    THEN Do(st, calcUDotPass1Inward(st.mem, EvalNode(i), a), EvalNode(i), EvalOp(i))
    ELSE Do(st, calcUDotPass2Outward(st.mem, EvalNode(i), a), EvalNode(i), EvalOp(i))

\* The passes up to calcYOutward: the caches the evaluations work from.
LastCachePass == CHOOSE p \in 1..Len(PassOrder) : PassOrder[p] = "calcYOutward"

\* The trees the two evaluations run on: quaternion mode, every body with
\* mass, the lineups that start at Sliding and at Free.
ScenariosTwo ==
    {sc \in Scenarios : ~sc.massless /\ ~sc.euler /\ sc.lineup \in {LineupFrom(4), LineupFrom(7)}}

InitTwo == \E sc \in ScenariosTwo, g \in GroundIndexValues : Start(sc, g)

\* The caller realizes the stages through calcYOutward, pass after pass.
NextCachePass == pass < LastCachePass /\ NextPass

\* From then on the caches stay as they are and the evaluations begin.
BeginEvaluations ==
    /\ PassComplete
    /\ pass = LastCachePass
    /\ pass' = Len(PassOrder) + 1
    /\ done' = {}
    /\ memAtStart' = mem
    /\ lastOp' = NoOp
    /\ UNCHANGED <<tree, mem, tag, evals, varsCreate>>

StepEvaluation(e, a) ==
    /\ ~aborted
    /\ pass = Len(PassOrder) + 1
    /\ evals[e] < EvalLength
    /\ LET st == ApplyEval(a, StartRun, evals[e] + 1) IN
         /\ mem' = st.mem
         /\ tag' = st.tag
         /\ lastOp' = [op |-> EvalOp(evals[e] + 1), node |-> EvalNode(evals[e] + 1),
                       reads |-> st.reads, writes |-> st.writes]
    /\ evals' = [evals EXCEPT ![e] = @ + 1, !.last = e,
                              !.switches = IF evals.last \notin {"none", e} /\ @ < MaxSwitches
                                           THEN @ + 1 ELSE @]
    /\ UNCHANGED <<tree, pass, done, memAtStart, varsCreate>>

StepFirstEvaluation == StepEvaluation("first", CallerArrays)
StepSecondEvaluation == StepEvaluation("second", CallerArrays2)

NextTwo ==
    \/ \E n \in Nodes : RunSetDefaultConfigurationValues(n)
    \/ \E n \in Nodes : RunSetDefaultMotionValues(n)
    \/ \E n \in Nodes : RunSetQ(n)
    \/ \E n \in Nodes : RunSetU(n)
    \/ \E n \in Nodes : RunRealizeConfiguration(n)
    \/ \E n \in Nodes : RunRealizeMotion(n)
    \/ \E n \in Nodes : RunCalcArticulatedBodyInertiasInward(n)
    \/ \E n \in Nodes : RunCalcJointIndependentDynamicsVel(n)
    \/ \E n \in Nodes : RunCalcYOutward(n)
    \/ NextCachePass
    \/ BeginEvaluations
    \/ StepFirstEvaluation
    \/ StepSecondEvaluation

SpecTwo == InitTwo /\ [][NextTwo]_vars

(***************************************************************************)
(* The caller sets the state variables and then has the quaternions        *)
(* renormalized, node by node, as often as it likes.                       *)
(***************************************************************************)
QuaternionClasses == {"RBNodeRotate3", "RBNodeTranslateRotate3"}

\* What enforceQuaternionConstraints returns for node n.
enforceQuaternionConstraints_Returns(n) ==
    ClassOfNode(n) \in QuaternionClasses /\ ~useEuler

\* An enforceQuaternionConstraints that scales the node's whole q slot.
enforceQuaternionConstraints_WholeSlot(m, n) ==
    IF ClassOfNode(n) \in QuaternionClasses /\ ~useEuler
    THEN LET R == QKeys("q", n)
             v == View(m, R)
         IN Step(R, toQ("q", n, VDiv(fromQ(v, "q", n), QuatNorm(fromQuat(v, "q", n)))))
    ELSE NoStep

\* enforceQuaternionConstraints: RBGroundBody's and RigidBodyNodeSpec's do
\* nothing; RBNodeRotate3's and RBNodeTranslateRotate3's store
\* quat / quat.norm() unless Euler angles are in use.
enforceQuaternionConstraints(m, n) ==
    IF ClassOfNode(n) \in QuaternionClasses /\ ~useEuler
    THEN LET R == QuatKeys("q", n)
             v == View(m, R)
         IN Step(R, toQuat("q", n, Normalized(fromQuat(v, "q", n))))
    ELSE NoStep

\* A setDefaultModelingValues that marks the node it is called on.
setDefaultModelingValues_EveryNode(m, n) == Step({}, <<"prescribed", n>> :> TRUE)

\* setDefaultModelingValues: RBGroundBody's marks body 0 as prescribed;
\* RigidBodyNodeSpec's does nothing.
setDefaultModelingValues(m, n) ==
    IF ClassOfNode(n) = "RBGroundBody"
    THEN Step({}, <<"prescribed", 0>> :> TRUE)
    ELSE NoStep

\* The modeling defaults are set before any other default.
RunSetDefaultModelingValues(n) ==
    /\ pass = 1
    /\ done = {}
    /\ LET st == Do(StartRun, setDefaultModelingValues(mem, n), n, "setDefaultModelingValues") IN
         /\ mem' = st.mem
         /\ tag' = st.tag
         /\ lastOp' = [op |-> "setDefaultModelingValues", node |-> n,
                       reads |-> st.reads, writes |-> st.writes]
         /\ memAtStart' = st.mem
    /\ UNCHANGED <<tree, pass, done, evals, varsCreate>>

LastSetterPass == CHOOSE p \in 1..Len(PassOrder) : PassOrder[p] = "setU"
NextSetterPass == pass < LastSetterPass /\ NextPass

\* The state variables are set; from now on the caller may have them fixed.
BeginEnforcing ==
    /\ PassComplete
    /\ pass = LastSetterPass
    /\ pass' = Len(PassOrder) + 1
    /\ done' = {}
    /\ memAtStart' = mem
    /\ lastOp' = NoOp
    /\ UNCHANGED <<tree, mem, tag, evals, varsCreate>>

\* One call of enforceQuaternionConstraints on node n; memAtStart keeps the
\* arrays as they were when the call was made.
RunEnforceQuaternionConstraints(n) ==
    /\ ~aborted
    /\ pass = Len(PassOrder) + 1
    /\ LET st == Do(StartRun, enforceQuaternionConstraints(mem, n), n,
                    "enforceQuaternionConstraints") IN
         /\ mem' = st.mem
         /\ tag' = st.tag
         /\ lastOp' = [op |-> "enforceQuaternionConstraints", node |-> n,
                       reads |-> st.reads, writes |-> st.writes,
                       returned |-> enforceQuaternionConstraints_Returns(n)]
    /\ memAtStart' = mem
    /\ UNCHANGED <<tree, pass, done, evals, varsCreate>>

InitQuat == \E sc \in Scenarios, g \in GroundIndexValues : ~sc.massless /\ Start(sc, g)

NextQuat ==
    \/ \E n \in Nodes : RunSetDefaultModelingValues(n)
    \/ \E n \in Nodes : RunSetDefaultConfigurationValues(n)
    \/ \E n \in Nodes : RunSetDefaultMotionValues(n)
    \/ \E n \in Nodes : RunSetQ(n)
    \/ \E n \in Nodes : RunSetU(n)
    \/ NextSetterPass
    \/ BeginEnforcing
    \/ \E n \in Nodes : RunEnforceQuaternionConstraints(n)

SpecQuat == InitQuat /\ [][NextQuat]_vars

(***************************************************************************)
(* Setting a joint's coordinates and speeds from an across-joint transform *)
(* and an across-joint spatial velocity.                                   *)
(***************************************************************************)
\* RotationMat::convertToQuaternion: a unit quaternion (a, b, c, d) of the
\* rotation, found from the first of 1 + trace, 1 + 2*R11 - trace, ... that
\* is not zero.
convertToQuaternion(R) ==
    LET tr == F(R[1][1] + R[2][2] + R[3][3])
        Quarter(x, y) == F(F(x) * Inv[F(4 * y)])
        t0 == F(1 + tr)
        t1 == F(1 + 2 * R[1][1] - tr)
        t2 == F(1 + 2 * R[2][2] - tr)
        t3 == F(1 + 2 * R[3][3] - tr)
    IN CASE t0 # 0 ->
              LET a == F(Sqrt(t0) * Half) IN
              <<a, Quarter(R[3][2] - R[2][3], a), Quarter(R[1][3] - R[3][1], a),
                Quarter(R[2][1] - R[1][2], a)>>
         [] t0 = 0 /\ t1 # 0 ->
              LET b == F(Sqrt(t1) * Half) IN
              <<Quarter(R[3][2] - R[2][3], b), b, Quarter(R[1][2] + R[2][1], b),
                Quarter(R[1][3] + R[3][1], b)>>
         [] t0 = 0 /\ t1 = 0 /\ t2 # 0 ->
              LET c == F(Sqrt(t2) * Half) IN
              <<Quarter(R[1][3] - R[3][1], c), Quarter(R[1][2] + R[2][1], c), c,
                Quarter(R[2][3] + R[3][2], c)>>
         [] OTHER ->
              LET d == F(Sqrt(t3) * Half) IN
              <<Quarter(R[2][1] - R[1][2], d), Quarter(R[1][3] + R[3][1], d),
                Quarter(R[2][3] + R[3][2], d), d>>

MobilizerClasses == {"RBNodeTranslate", "RBNodeRotate3", "RBNodeTranslateRotate3"}

\* setMobilizerConfiguration(mv, X_JbJ, q) of RBNodeTranslate, RBNodeRotate3
\* and RBNodeTranslateRotate3, with the caller's transform for node n.
setMobilizerConfiguration(m, n) ==
    LET R == {<<"argX_JbJ", n>>}
        X_JbJ == View(m, R)[<<"argX_JbJ", n>>]
        c == ClassOfNode(n)
    IN CASE c = "RBNodeTranslate" -> Step(R, toQ("q", n, X_JbJ.T))
         [] c = "RBNodeRotate3" ->
              IF useEuler THEN NoStep
              ELSE Step(R, toQuat("q", n, convertToQuaternion(X_JbJ.R)))
         [] c = "RBNodeTranslateRotate3" ->
              IF useEuler THEN Step(R, toQVec3("q", n, 3, X_JbJ.T))
              ELSE Step(R, toQuat("q", n, convertToQuaternion(X_JbJ.R))
                           @@ toQVec3("q", n, 4, X_JbJ.T))

\* A setter storing the linear velocity in both halves of a Free joint's speeds.
setMobilizerVelocity_LinearOnly(m, n) ==
    LET R == {<<"argV_JbJ", n>>}
        V_JbJ == View(m, R)[<<"argV_JbJ", n>>]
        c == ClassOfNode(n)
    IN CASE c = "RBNodeTranslate" -> Step(R, toU("u", n, Lin(V_JbJ)))
         [] c = "RBNodeRotate3" -> Step(R, toU("u", n, Ang(V_JbJ)))
         [] c = "RBNodeTranslateRotate3" ->
              Step(R, toUVec3("u", n, 0, Lin(V_JbJ)) @@ toUVec3("u", n, 3, Lin(V_JbJ)))

\* setMobilizerVelocity(mv, V_JbJ, u) of the same three classes.
setMobilizerVelocity(m, n) ==
    LET R == {<<"argV_JbJ", n>>}
        V_JbJ == View(m, R)[<<"argV_JbJ", n>>]
        c == ClassOfNode(n)
    IN CASE c = "RBNodeTranslate" -> Step(R, toU("u", n, Lin(V_JbJ)))
         [] c = "RBNodeRotate3" -> Step(R, toU("u", n, Ang(V_JbJ)))
         [] c = "RBNodeTranslateRotate3" ->
              Step(R, toUVec3("u", n, 0, Ang(V_JbJ)) @@ toUVec3("u", n, 3, Lin(V_JbJ)))

\* The caller sets node n in its turn with the mobilizer setter rather than
\* with setQ or setU.
VisitWithMobilizerSetter(inPlaceOf, op, n, st) ==
    /\ ~aborted
    /\ CurrentOp = inPlaceOf
    /\ n \in Bodies \ done
    /\ ClassOfNode(n) \in MobilizerClasses
    /\ Ready(inPlaceOf, n)
    /\ mem' = st.mem
    /\ tag' = st.tag
    /\ lastOp' = [op |-> op, node |-> n, reads |-> st.reads, writes |-> st.writes]
    /\ aborted' = st.threw
    /\ done' = done \cup {n}
    /\ UNCHANGED <<tree, pass, memAtStart, evals, varsCreate>>

RunSetMobilizerConfiguration(n) ==
    VisitWithMobilizerSetter("setQ", "setMobilizerConfiguration", n,
        Do(StartRun, setMobilizerConfiguration(mem, n), n, "setMobilizerConfiguration"))

RunSetMobilizerVelocity(n) ==
    VisitWithMobilizerSetter("setU", "setMobilizerVelocity", n,
        Do(StartRun, setMobilizerVelocity(mem, n), n, "setMobilizerVelocity"))

LastMotionPass == CHOOSE p \in 1..Len(PassOrder) : PassOrder[p] = "realizeMotion"
NextMotionPass == pass < LastMotionPass /\ NextPass

InitMobilizer ==
    \E sc \in Scenarios, g \in GroundIndexValues :
       /\ ~sc.massless
       /\ sc.lineup \in {LineupFrom(6), LineupFrom(7)}
       /\ Start(sc, g)

NextMobilizer ==
    \/ \E n \in Nodes : RunSetDefaultConfigurationValues(n)
    \/ \E n \in Nodes : RunSetDefaultMotionValues(n)
    \/ \E n \in Nodes : RunSetQ(n)
    \/ \E n \in Nodes : RunSetMobilizerConfiguration(n)
    \/ \E n \in Nodes : RunSetU(n)
    \/ \E n \in Nodes : RunSetMobilizerVelocity(n)
    \/ \E n \in Nodes : RunRealizeConfiguration(n)
    \/ \E n \in Nodes : RunRealizeMotion(n)
    \/ NextMotionPass

SpecMobilizer == InitMobilizer /\ [][NextMobilizer]_vars

(***************************************************************************)
(* The Dynamics stage with a caller that does not wait for the inertia     *)
(* pass: calcJointIndependentDynamicsVel is invoked on some nodes while    *)
(* calcArticulatedBodyInertiasInward is still under way, and on every node *)
(* once that pass is over.                                                 *)
(***************************************************************************)
\* The number of nodes the caller invokes the routine on ahead of its pass.
MaxEarly == 2

InertiaPass == CHOOSE p \in 1..Len(PassOrder) : PassOrder[p] = "calcArticulatedBodyInertiasInward"
VelocityTermsPass ==
    CHOOSE p \in 1..Len(PassOrder) : PassOrder[p] = "calcJointIndependentDynamicsVel"
InvokedEarly == {k \in Nodes : tag[<<"centrifugalForces", k>>] # <<-1, "unset">>}

\* calcJointIndependentDynamicsVel on node n during the inertia pass,
\* whether or not that pass has reached n.
RunCalcJointIndependentDynamicsVelEarly(n) ==
    /\ ~aborted
    /\ pass = InertiaPass
    /\ n \notin InvokedEarly
    /\ Cardinality(InvokedEarly) < MaxEarly
    /\ LET st == calcJointIndependentDynamicsVel(StartRun, n) IN
         /\ mem' = st.mem
         /\ tag' = st.tag
         /\ lastOp' = [op |-> "calcJointIndependentDynamicsVel", node |-> n,
                       reads |-> st.reads, writes |-> st.writes]
    /\ UNCHANGED <<tree, pass, done, memAtStart, aborted, evals, varsCreate>>

NextDynamicsPass == pass < VelocityTermsPass /\ NextPass

\* Chains and stars in quaternion mode, every body with mass.
InitDynamics ==
    \E sc \in Scenarios, g \in GroundIndexValues :
       /\ ~sc.massless /\ ~sc.euler
       /\ sc.lineup \in {LineupFrom(1), LineupFrom(7)}
       /\ \/ \A i \in 1..NumBodies : sc.parent[i] = i - 1
          \/ \A i \in 1..NumBodies : sc.parent[i] = 0
       /\ Start(sc, g)

NextDynamics ==
    \/ \E n \in Nodes : RunSetDefaultConfigurationValues(n)
    \/ \E n \in Nodes : RunSetDefaultMotionValues(n)
    \/ \E n \in Nodes : RunSetQ(n)
    \/ \E n \in Nodes : RunSetU(n)
    \/ \E n \in Nodes : RunRealizeConfiguration(n)
    \/ \E n \in Nodes : RunRealizeMotion(n)
    \/ \E n \in Nodes : RunCalcArticulatedBodyInertiasInward(n)
    \/ \E n \in Nodes : RunCalcJointIndependentDynamicsVelEarly(n)
    \/ \E n \in Nodes : RunCalcJointIndependentDynamicsVel(n)
    \/ NextDynamicsPass

SpecDynamics == InitDynamics /\ [][NextDynamics]_vars

(***************************************************************************)
(* The caller sets the generalized speeds from spatial velocities: once    *)
(* the Motion stage is realized, setVelFromSVel is called from base to     *)
(* tip, each node being handed the spatial velocity V_GB that the Motion   *)
(* stage computed for it.                                                  *)
(***************************************************************************)
MotionPass == CHOOSE p \in 1..Len(PassOrder) : PassOrder[p] = "realizeMotion"
SetFromSVel == {k \in Bodies : tag[<<"u", uIndex(k)>>] = <<k, "setVelFromSVel">>}

RunSetVelFromSVel(n) ==
    /\ pass = MotionPass
    /\ PassComplete
    /\ IF n = 0 THEN SetFromSVel = {} /\ lastOp.op # "setVelFromSVel"
                ELSE n \notin SetFromSVel /\ (Parent(n) = 0 \/ Parent(n) \in SetFromSVel)
    /\ LET st == Do(StartRun, setVelFromSVel(mem, n, mem[<<"V_GB", n>>]), n,
                    "setVelFromSVel") IN
         /\ mem' = st.mem
         /\ tag' = st.tag
         /\ lastOp' = [op |-> "setVelFromSVel", node |-> n,
                       reads |-> st.reads, writes |-> st.writes]
    /\ UNCHANGED <<tree, pass, done, memAtStart, aborted, evals, varsCreate>>

NextSetVelPass == pass < MotionPass /\ NextPass

\* Trees of every joint type, every body with mass.
InitSetVel ==
    \E sc \in Scenarios, g \in GroundIndexValues : ~sc.massless /\ Start(sc, g)

NextSetVel ==
    \/ \E n \in Nodes : RunSetDefaultConfigurationValues(n)
    \/ \E n \in Nodes : RunSetDefaultMotionValues(n)
    \/ \E n \in Nodes : RunSetQ(n)
    \/ \E n \in Nodes : RunSetU(n)
    \/ \E n \in Nodes : RunRealizeConfiguration(n)
    \/ \E n \in Nodes : RunRealizeMotion(n)
    \/ \E n \in Nodes : RunSetVelFromSVel(n)
    \/ NextSetVelPass

SpecSetVel == InitSetVel /\ [][NextSetVel]_vars

(***************************************************************************)
(* Properties of the node factory.                                         *)
(***************************************************************************)
LastNode == created[Len(created)]
ReturnedNode == lastCall.outcome = "node"

CountersAdvancedBy(class) ==
    /\ nextUSlot   = lastCall.before.u   + getDOF(class)
    /\ nextUSqSlot = lastCall.before.uSq + getDOF(class) * getDOF(class)
    /\ nextQSlot   = lastCall.before.q   + getMaxNQ(class)

IndicesAreCountersBefore(n) ==
    /\ n.uIndex   = lastCall.before.u
    /\ n.uSqIndex = lastCall.before.uSq
    /\ n.qIndex   = lastCall.before.q

\* C1 (as stated): whenever create returns a node, the node's uIndex, uSqIndex
\* and qIndex are the counters' values at the call, Ground included, and the
\* counters have advanced by dof, dof*dof and maxNQ of the variant.
C1_CreateIndicesAndCounters ==
    ReturnedNode =>
        /\ IndicesAreCountersBefore(LastNode)
        /\ CountersAdvancedBy(LastNode.class)

\* C1 (amended): whenever create returns a node, the counters have advanced by
\* dof, dof*dof and maxNQ of the variant (0, 0, 0 for Ground; 4 resp. 7
\* coordinates for Ball resp. Free in either mode), and the node of every
\* variant other than Ground holds the counters' values at the call as its
\* uIndex, uSqIndex and qIndex.
C1_CreateAdvancesCounters ==
    ReturnedNode =>
        /\ CountersAdvancedBy(LastNode.class)
        /\ LastNode.class = ClassOf(lastCall.type)
        /\ LastNode.class # "RBGroundBody" => IndicesAreCountersBefore(LastNode)
        /\ LastNode.class = "RBGroundBody" => Counters = lastCall.before
        /\ LastNode.class = "RBNodeRotate3" => nextQSlot = lastCall.before.q + 4
        /\ LastNode.class = "RBNodeTranslateRotate3" => nextQSlot = lastCall.before.q + 7

\* A Free joint created in Euler mode after other nodes: the coordinate
\* counter was nonzero and has advanced by 7.
C1_Witness ==
    /\ ReturnedNode
    /\ lastCall.type = "Free"
    /\ useEuler
    /\ lastCall.before.q > 0
    /\ LastNode.qIndex = lastCall.before.q
    /\ nextQSlot = lastCall.before.q + 7

\* The catalog of the joint variants: class |-> <<dof, NQ in Euler mode,
\* NQ in quaternion mode>>.
CatalogCounts(class) ==
    CASE class = "RBGroundBody"           -> <<0, 0, 0>>
      [] class = "RBNodeTranslate"        -> <<3, 3, 3>>
      [] class = "RBNodeSlider"           -> <<1, 1, 1>>
      [] class = "RBNodeTorsion"          -> <<1, 1, 1>>
      [] class = "RBNodeRotate2"          -> <<2, 2, 2>>
      [] class = "RBNodeRotate3"          -> <<3, 3, 4>>
      [] class = "RBNodeTranslateRotate2" -> <<5, 5, 5>>
      [] class = "RBNodeTranslateRotate3" -> <<6, 6, 7>>

\* C2: every created node reports the dof and coordinate counts of the
\* catalog in the current modeling mode, and getDOF <= getNQ <= getMaxNQ in
\* both modes.
C2_CatalogCounts ==
    \A i \in DOMAIN created :
        LET class == created[i].class IN
        /\ getDOF(class) = CatalogCounts(class)[1]
        /\ getNQ(class, useEuler) = CatalogCounts(class)[IF useEuler THEN 2 ELSE 3]
        /\ \A euler \in BOOLEAN :
              /\ getDOF(class) <= getNQ(class, euler)
              /\ getNQ(class, euler) <= getMaxNQ(class)

\* A Ball and a Free joint exist in quaternion mode, where NQ exceeds dof.
C2_Witness ==
    /\ ~useEuler
    /\ \E i \in DOMAIN created : /\ created[i].class = "RBNodeRotate3"
                                 /\ getNQ(created[i].class, useEuler) = 4
    /\ \E i \in DOMAIN created : /\ created[i].class = "RBNodeTranslateRotate3"
                                 /\ getNQ(created[i].class, useEuler) = 7

\* C3: a create call with isReversed = TRUE, or with a joint type outside the
\* eight supported ones, ends in the fatal condition, returns no node, and
\* leaves the three counters as they were.
C3_UnsupportedIsFatal ==
    (lastCall.outcome # "none" /\ (lastCall.isReversed \/ lastCall.type \in UnsupportedTypes))
        => /\ lastCall.outcome = "fatal"
           /\ aborted
           /\ Counters = lastCall.before

(***************************************************************************)
(* Properties of the passes.                                               *)
(***************************************************************************)
\* Entry k lies in the part of its array that belongs to node b.
InOwnRange(k, b) ==
    CASE k[1] \in UArrays   -> uIndex(b) <= k[2] /\ k[2] < uIndex(b) + dof(b)
      [] k[1] \in QArrays   -> qIndex(b) <= k[2] /\ k[2] < qIndex(b) + maxNQ(b)
      [] k[1] \in USqArrays -> uSqIndex(b) <= k[2] /\ k[2] < uSqIndex(b) + dof(b) * dof(b)
      [] OTHER              -> k[2] = b

Acted == lastOp.op # "none"

\* C4: every write of an operation on node n lands in n's own slots: in
\* [uIndex, uIndex+dof) of a u-indexed array, [qIndex, qIndex+maxNQ) of a
\* q-indexed array, [uSqIndex, uSqIndex+dof*dof) of a dof-squared array, at
\* index nodeNum of a body-indexed array; and those slots belong to no other
\* node, so no slot is written by two different nodes.
C4_SingleWriter ==
    Acted =>
      \A k \in lastOp.writes :
         /\ InOwnRange(k, lastOp.node)
         /\ \A b \in Nodes : InOwnRange(k, b) => b = lastOp.node

\* A ball-containing joint has written the coordinate slot past its dof
\* slots, next to the first slot of the node created after it.
C4_Witness ==
    /\ lastOp.op = "realizeMotion"
    /\ ClassOfNode(lastOp.node) \in {"RBNodeRotate3", "RBNodeTranslateRotate3"}
    /\ <<"qdot", qIndex(lastOp.node) + dof(lastOp.node)>> \in lastOp.writes
    /\ \E b \in Bodies : qIndex(b) = qIndex(lastOp.node) + maxNQ(lastOp.node)

\* The entries written by the passes, as opposed to the state variables q and
\* u and to what the caller supplies.
PassOutput(k) == k[1] \notin CallerInputs \cup {"q", "u"}
WrittenBy(r, b, op) == r[2] = <<b, op>>
ByOwnOperation(r, b) == r[2][1] = b

\* C5 (as stated): in a base-to-tip pass every entry a node reads is its own
\* entry written earlier in the same call, or an entry of its parent written
\* by the parent's invocation of that pass.
C5_OutwardReadsWrittenInPass ==
    lastOp.op \in OutwardOps =>
      \A r \in lastOp.reads :
         PassOutput(r[1]) =>
            \/ InOwnRange(r[1], lastOp.node) /\ WrittenBy(r, lastOp.node, lastOp.op)
            \/ /\ lastOp.node # 0
               /\ InOwnRange(r[1], Parent(lastOp.node))
               /\ WrittenBy(r, Parent(lastOp.node), lastOp.op)

\* C5 (amended): in a base-to-tip pass every entry a node reads is its own,
\* written earlier in the same call or by an earlier operation on the node, or
\* an entry of its parent; the parent's entry was written by the parent's
\* invocation of that pass, except that of Ground's X_GB, V_GB, Y and A_GB,
\* which no operation writes and which are as the owner of the caches left
\* them.  No other entry that nothing has written is read.
C5_OutwardReads ==
    lastOp.op \in OutwardOps =>
      \A r \in lastOp.reads :
         /\ r[2][2] = "unset" => FALSE
         /\ PassOutput(r[1]) =>
               \/ InOwnRange(r[1], lastOp.node) /\ ByOwnOperation(r, lastOp.node)
               \/ /\ lastOp.node # 0
                  /\ InOwnRange(r[1], Parent(lastOp.node))
                  /\ \/ WrittenBy(r, Parent(lastOp.node), lastOp.op)
                     \/ /\ Parent(lastOp.node) = 0
                        /\ r[1] \in OwnerEntries
                        /\ r[2] = <<-1, "owner">>

\* calcAccel on a node whose parent is not Ground has read the A_GB the
\* parent's calcAccel wrote, and its own nu, written by calcZ.
C5_Witness ==
    /\ lastOp.op = "calcAccel"
    /\ Parent(lastOp.node) # 0
    /\ <<<<"A_GB", Parent(lastOp.node)>>, <<Parent(lastOp.node), "calcAccel">>>> \in lastOp.reads
    /\ <<<<"nu", uIndex(lastOp.node)>>, <<lastOp.node, "calcZ">>>> \in lastOp.reads

OtherNodesEntries == {r \in lastOp.reads : ~InOwnRange(r[1], lastOp.node)}
ChildOutputs == {"P", "tauBar", "z", "Gepsilon", "allZ", "allGepsilon", "zTmp",
                 "eqZ", "eqGepsilon"}

\* C6 (as stated): in a tip-to-base pass the entries of other nodes that a
\* node reads are entries of its direct children (P, tauBar, Phi; z, Gepsilon),
\* each written by that child's invocation earlier in the same pass.
C6_InwardReadsWrittenInPass ==
    lastOp.op \in InwardOps =>
      \A r \in OtherNodesEntries :
         \E c \in ChildSet(lastOp.node) :
            /\ InOwnRange(r[1], c)
            /\ r[1][1] \in ChildOutputs \cup {"Phi"}
            /\ WrittenBy(r, c, lastOp.op)

\* C6 (amended): in a tip-to-base pass the entries of other nodes that a node
\* reads are entries of its direct children: the pass's outputs (P, tauBar; z,
\* Gepsilon, or the caller's arrays standing for them), each written by that
\* child's invocation earlier in the same pass, and the child's Phi, written by
\* the child's realizeConfiguration.  A leaf reads no other node's entry.
C6_InwardReads ==
    lastOp.op \in InwardOps =>
      /\ \A r \in OtherNodesEntries :
            \E c \in ChildSet(lastOp.node) :
               /\ InOwnRange(r[1], c)
               /\ \/ r[1][1] \in ChildOutputs /\ WrittenBy(r, c, lastOp.op)
                  \/ r[1][1] = "Phi" /\ WrittenBy(r, c, "realizeConfiguration")
      /\ ChildSet(lastOp.node) = {} => OtherNodesEntries = {}

\* The inertia pass on a body with two children has read P, tauBar and Phi
\* of both.
C6_Witness ==
    /\ lastOp.op = "calcArticulatedBodyInertiasInward"
    /\ lastOp.node # 0
    /\ Cardinality(ChildSet(lastOp.node)) = 2
    /\ \A c \in ChildSet(lastOp.node) :
          /\ <<<<"P", c>>, <<c, lastOp.op>>>> \in lastOp.reads
          /\ <<<<"tauBar", c>>, <<c, lastOp.op>>>> \in lastOp.reads
          /\ <<<<"Phi", c>>, <<c, "realizeConfiguration">>>> \in lastOp.reads

\* C7: whatever order the nodes of a pass were visited in, as long as it kept
\* to the direction of the pass along every ancestor/descendant chain, the
\* pass ends with the contents one fixed such order gives, for every entry
\* of every cache and array.
C7_OrderIndependent ==
    PassComplete => mem = WholePass(CurrentOp, RunFrom(memAtStart, tag)).mem

\* A base-to-tip pass has ended with node 1 visited last, after the other
\* children of Ground, where the fixed order visits it first after Ground.
C7_Witness ==
    /\ PassComplete
    /\ CurrentOp = "calcAccel"
    /\ lastOp.node = 1
    /\ Cardinality(ChildSet(0)) > 1

UdotPathsDone == pass > 13 \/ (pass = 13 /\ PassComplete)
SameForces ==
    /\ \A i \in 0..(tree.nU - 1) :
          memAtStart[<<"jointForces", i>>] = memAtStart[<<"appliedMobilityForces", i>>]

\* C8: with the same caches, the same joint forces and the same body forces,
\* once both paths have run, udot from calcZ/calcAccel equals udot from
\* calcUDotPass1Inward/calcUDotPass2Outward in every slot, and A_GB of the
\* two paths agree at every node.
C8_PathsAgree ==
    (UdotPathsDone /\ ~aborted /\ SameForces) =>
       /\ \A i \in 0..(tree.nU - 1) : mem[<<"udot", i>>] = mem[<<"allUDot", i>>]
       /\ \A n \in Nodes : mem[<<"A_GB", n>>] = mem[<<"allA_GB", n>>]

\* Both paths have run on a tree with a body two joints away from Ground,
\* and the accelerations they agree on are not all zero.
C8_Witness ==
    /\ pass = 13 /\ PassComplete /\ SameForces
    /\ \E n \in Bodies : Parent(n) # 0 /\ mem[<<"allA_GB", n>>] # SpatialZero
                          /\ mem[<<"allUDot", uIndex(n)>>] # 0

CacheArrays == ConfigurationCache \cup MotionCache \cup DynamicsCache \cup ReactionCache
CallerOutputs == {"allZ", "allGepsilon", "allEpsilon", "allA_GB", "allUDot", "zTmp", "JX",
                  "eqZ", "eqGepsilon", "eqJointForces"}

\* C9: while the array-based operators run, every entry of the Configuration,
\* Motion, Dynamics and Reaction caches stays as it was when their pass
\* began, and each of them writes only into the output arrays its caller gave it.
C9_CachesUntouched ==
    CurrentOp \in ArrayOps =>
       /\ \A k \in DOMAIN mem : k[1] \in CacheArrays => mem[k] = memAtStart[k]
       /\ \A k \in lastOp.writes : k[1] \in CallerOutputs

\* calcEquivalentJointForces has written its three outputs for a body that
\* has a child.
C9_Witness ==
    /\ lastOp.op = "calcEquivalentJointForces"
    /\ lastOp.node # 0
    /\ ChildSet(lastOp.node) # {}
    /\ {<<"eqZ", lastOp.node>>, <<"eqGepsilon", lastOp.node>>,
        <<"eqJointForces", uIndex(lastOp.node)>>} \subseteq lastOp.writes

(***************************************************************************)
(* Properties of interleaved evaluations.                                  *)
(***************************************************************************)
RECURSIVE RunAlone(_, _, _)
RunAlone(a, st, i) ==
    IF st.threw \/ i > EvalLength THEN st ELSE RunAlone(a, ApplyEval(a, st, i), i + 1)

ArraysOf(a) == {a.allZ, a.allGepsilon, a.allEpsilon, a.allA_GB, a.allUDot}
BothEvaluationsDone ==
    pass = Len(PassOrder) + 1 /\ evals.first = EvalLength /\ evals.second = EvalLength
EndsAsAlone(a) ==
    LET alone == RunAlone(a, RunFrom(memAtStart, tag), 1).mem IN
    \A k \in DOMAIN mem : k[1] \in ArraysOf(a) => mem[k] = alone[k]

\* C10: two evaluations of the udot passes over the same tree and caches,
\* each with its own arrays and forces, their per-node steps interleaved in
\* any way: when both are done, each one's arrays hold what that evaluation
\* produces when it runs alone from the same start.
C10_InterleavedAsAlone ==
    BothEvaluationsDone => EndsAsAlone(CallerArrays) /\ EndsAsAlone(CallerArrays2)

\* Both evaluations are done after changing turns several times, and their
\* results differ from each other.
C10_Witness ==
    /\ BothEvaluationsDone
    /\ evals.switches = MaxSwitches
    /\ \E i \in 0..(tree.nU - 1) : mem[<<"allUDot", i>>] # mem[<<"allUDot2", i>>]

(***************************************************************************)
(* Properties of Ground.                                                   *)
(***************************************************************************)
PassOf(op) == CHOOSE i \in 1..Len(PassOrder) : PassOrder[i] = op
\* Operation op has been invoked on node n in the current round of passes.
Visited(op, n) == pass > PassOf(op) \/ (pass = PassOf(op) /\ n \in done)

GroundDynamicsZero ==
    /\ mem[<<"gyroscopicForce", 0>>] = SpatialZero
    /\ mem[<<"coriolisAcceleration", 0>>] = SpatialZero
    /\ mem[<<"centrifugalForces", 0>>] = SpatialZero

\* C11 as stated: after any sequence of realize and calc operations, whatever
\* the caches held before, Ground's gyroscopic force, coriolis acceleration,
\* centrifugal force, H and A_GB are all zero.
C11_GroundAlwaysZero ==
    Acted => /\ GroundDynamicsZero
             /\ UKeys("storageForHt", 0) = {}
             /\ mem[<<"A_GB", 0>>] = SpatialZero

\* C11: Ground's gyroscopic force, coriolis acceleration and centrifugal
\* force are zero once calcJointIndependentDynamicsVel has been invoked on
\* Ground, whatever q, u and the forces of the other nodes are; Ground has no
\* entry of H; no operation ever stores into Ground's A_GB, which holds what
\* the owner of the cache put there; calcUDotPass2Outward stores zero in
\* Ground's entry of the caller's acceleration array.
C11_GroundZero ==
    /\ Visited("calcJointIndependentDynamicsVel", 0) => GroundDynamicsZero
    /\ UKeys("storageForHt", 0) = {}
    /\ tag[<<"A_GB", 0>>] = <<-1, "owner">>
    /\ mem[<<"A_GB", 0>>] = memAtStart[<<"A_GB", 0>>]
    /\ Visited("calcUDotPass2Outward", 0) => mem[<<"allA_GB", 0>>] = SpatialZero

\* The acceleration pass is over on a tree whose bodies move and carry
\* forces, and Ground's dynamic quantities were stored by the velocity pass.
C11_Witness ==
    /\ Visited("calcAccel", NumBodies)
    /\ tag[<<"gyroscopicForce", 0>>] = <<0, "calcJointIndependentDynamicsVel">>
    /\ \E n \in Bodies : mem[<<"A_GB", n>>] # SpatialZero
    /\ \E n \in Bodies : mem[<<"coriolisAcceleration", n>>] # SpatialZero

(***************************************************************************)
(* Properties of a tree at rest.                                           *)
(***************************************************************************)
AtRest ==
    /\ \A i \in 0..(tree.nU - 1) :
          memAtStart[<<"uIn", i>>] = 0 /\ memAtStart[<<"appliedMobilityForces", i>>] = 0
    /\ \A n \in Nodes : memAtStart[<<"bodyForces", n>>] = SpatialZero

\* C12: with every generalized speed zero and every applied joint force and
\* body force zero, once realizeConfiguration, realizeMotion,
\* calcArticulatedBodyInertiasInward, calcJointIndependentDynamicsVel, calcZ
\* and calcAccel have run over the tree, udot is zero in every slot and A_GB
\* is zero at every node, whatever q is.
C12_RestStaysAtRest ==
    (AtRest /\ Visited("calcAccel", 0) /\ \A n \in Bodies : Visited("calcAccel", n)) =>
        /\ \A i \in 0..(tree.nU - 1) : mem[<<"udot", i>>] = 0
        /\ \A n \in Nodes : mem[<<"A_GB", n>>] = SpatialZero

\* The pipeline has run at rest on a tree with a rotated joint and a body
\* two joints away from Ground.
C12_Witness ==
    /\ AtRest
    /\ \A n \in Nodes : Visited("calcAccel", n)
    /\ tag[<<"A_GB", NumBodies>>] = <<NumBodies, "calcAccel">>
    /\ \E n \in Bodies : Parent(n) # 0
    /\ \E i \in 0..(tree.nQ - 1) : mem[<<"q", i>>] # 0
    /\ \E n \in Bodies : mem[<<"X_GB", n>>] # IdentityTransform

(***************************************************************************)
(* Properties of enforceQuaternionConstraints.                             *)
(***************************************************************************)
Enforced == lastOp.op = "enforceQuaternionConstraints"
AllQ == {<<"q", i>> : i \in 0..(tree.nQ - 1)}

SecondCall ==
    /\ Enforced
    /\ lastOp.reads # {}
    /\ \A r \in lastOp.reads : r[2] = <<lastOp.node, "enforceQuaternionConstraints">>

\* C14: when enforceQuaternionConstraints is called twice in succession on a
\* Ball or Free joint in quaternion mode, the second call leaves q as the
\* first call left it and reports no change (returns false).
C14_SecondCallNoChange ==
    SecondCall => /\ mem = memAtStart
                  /\ lastOp.returned = FALSE

(***************************************************************************)
(* Properties of the quaternion joints' kinematics.                        *)
(***************************************************************************)
QuaternionNodes == {n \in Bodies : ClassOfNode(n) \in QuaternionClasses /\ ~useEuler}
UnitNorm(quat) == dot(quat, quat) = 1
Orthonormal(R) == MatMul(R, Transpose(R)) = Ident(3)
AngularSpeeds(arr, n) == FromSlots(mem, arr, uIndex(n), 3)

\* What calcAcrossJointTransform and calcJointSinCosQNorm leave: a rotation
\* and a copy of the quaternion that are those of a unit quaternion.
NormalizedInConfiguration(n) ==
    Visited("realizeConfiguration", n) =>
        /\ Orthonormal(mem[<<"X_JbJ", n>>].R)
        /\ mem[<<"X_JbJ", n>>].R = QuaternionToRotation(fromQuat(mem, "qnorm", n))
        /\ UnitNorm(fromQuat(mem, "qnorm", n))

\* C15 as stated: in quaternion mode every quaternion a kinematics routine
\* of a Ball or Free joint consumes has unit norm, so X_JbJ, qdot and qdotdot
\* are those of the normalized quaternion even when q's is not normalized.
C15_ConsumedQuaternionsUnit ==
    \A n \in QuaternionNodes :
       LET unit == Normalized(fromQuat(mem, "q", n)) IN
       /\ NormalizedInConfiguration(n)
       /\ Visited("realizeMotion", n) =>
             fromQuat(mem, "qdot", n)
                = convertAngVelToQuaternionDot(unit, AngularSpeeds("u", n))
       /\ Visited("calcAccel", n) =>
             fromQuat(mem, "qdotdot", n)
                = convertAngVelDotToQuaternionDotDot(unit, AngularSpeeds("u", n),
                                                     AngularSpeeds("udot", n))

\* C15: in quaternion mode calcAcrossJointTransform normalizes the state
\* quaternion itself and calcJointSinCosQNorm stores a normalized copy, but
\* calcQDot and calcQDotDot hand the quaternion stored in q to the
\* conversions as it is, and no operation reads the normalized copy.
C15_QuaternionConsumers ==
    /\ \A n \in QuaternionNodes :
          LET raw == fromQuat(mem, "q", n) IN
          /\ NormalizedInConfiguration(n)
          /\ Visited("realizeMotion", n) =>
                fromQuat(mem, "qdot", n)
                   = convertAngVelToQuaternionDot(raw, AngularSpeeds("u", n))
          /\ Visited("calcAccel", n) =>
                fromQuat(mem, "qdotdot", n)
                   = convertAngVelDotToQuaternionDotDot(raw, AngularSpeeds("u", n),
                                                        AngularSpeeds("udot", n))
    /\ \A r \in lastOp.reads : r[1][1] # "qnorm"

\* calcAccel has run on a Ball or Free joint whose stored quaternion is not
\* of unit length and whose angular speeds are not all zero.
C15_Witness ==
    \E n \in QuaternionNodes :
       /\ Visited("calcAccel", n)
       /\ ~UnitNorm(fromQuat(mem, "q", n))
       /\ AngularSpeeds("u", n) # VZero(3)
       /\ fromQuat(mem, "qdot", n) # VZero(4)
       /\ fromQuat(mem, "qdotdot", n) # VZero(4)

(***************************************************************************)
(* Properties of the spatial inertia.                                      *)
(***************************************************************************)
\* The 3x3 block of a 6x6 matrix whose first row and column are r + 1, c + 1.
Block(M, r, c) == Tuple([i \in 1..3 |-> Tuple([j \in 1..3 |-> M[r + i][c + j]])])

\* C16: once calcJointIndependentKinematicsPos has run on a node, the upper
\* right block of its Mk is m*crossMat(CB_G), the lower left block is the
\* negative of that block and also its transpose, the lower right block is m
\* times the identity, and Mk is symmetric.
C16_SpatialInertiaBlocks ==
    \A n \in Bodies :
       Visited("realizeConfiguration", n) =>
          LET Mk == mem[<<"Mk", n>>]
              offDiag == MScale(getMass(n), crossMat(mem[<<"CB_G", n>>]))
          IN /\ Block(Mk, 0, 3) = offDiag
             /\ Block(Mk, 3, 0) = MNeg(Block(Mk, 0, 3))
             /\ Block(Mk, 3, 0) = Transpose(Block(Mk, 0, 3))
             /\ Block(Mk, 3, 3) = MScale(getMass(n), Ident(3))
             /\ Mk = Transpose(Mk)

\* Mk has been computed for a body with mass, a center of mass away from its
\* origin and an orientation other than Ground's.
C16_Witness ==
    \E n \in Bodies :
       /\ Visited("realizeConfiguration", n)
       /\ getMass(n) # 0
       /\ Block(mem[<<"Mk", n>>], 0, 3) # MZero(3, 3)
       /\ mem[<<"X_GB", n>>].R # Ident(3)
       /\ Block(mem[<<"Mk", n>>], 0, 0) # Transpose(getInertia_OB_B(n))

(***************************************************************************)
(* Properties of a failed inversion.                                       *)
(***************************************************************************)
ABI == "calcArticulatedBodyInertiasInward"
RECURSIVE Ancestors(_)
Ancestors(n) == IF n = 0 THEN {} ELSE {Parent(n)} \cup Ancestors(Parent(n))
SingularD(n) == dof(n) > 0 /\ invert(fromUSq(mem, "storageForD", n)) = <<>>
NeverStored(k) == tag[k][1] = -1
AccelerationArrays == {"udot", "qdotdot", "allUDot", "allUDot2"}

\* C17: when D of a node is singular in calcArticulatedBodyInertiasInward
\* the inversion throws and the realization ends there: DI, G, tauBar and
\* Psi of that node are not stored, no node closer to the base is processed
\* afterwards, and no acceleration is produced.
C17_SingularDAborts ==
    \A n \in Bodies :
       (Visited(ABI, n) /\ SingularD(n)) =>
          /\ aborted
          /\ CurrentOp = ABI
          /\ lastOp.op = ABI /\ lastOp.node = n
          /\ \A k \in USqKeys("storageForDI", n) \cup UKeys("storageForG", n)
                        \cup {<<"tauBar", n>>, <<"Psi", n>>} : NeverStored(k)
          /\ Ancestors(n) \cap done = {}
          /\ \A k \in DOMAIN mem :
                k[1] \in AccelerationArrays \cup {"A_GB", "allA_GB", "allA_GB2"} =>
                   tag[k][2] \in {"unset", "owner"}

\* The inversion has failed at a massless body at the tip of a chain, after
\* P and D of that body were stored.
C17_Witness ==
    /\ aborted
    /\ lastOp.op = ABI
    /\ getMass(lastOp.node) = 0
    /\ SingularD(lastOp.node)
    /\ tag[<<"P", lastOp.node>>] = <<lastOp.node, ABI>>
    /\ Cardinality(Ancestors(lastOp.node)) > 1

(***************************************************************************)
(* Properties of the mobilizer setters.                                    *)
(***************************************************************************)
\* Free joints in quaternion mode whose coordinates and speeds were last
\* stored by setMobilizerConfiguration and setMobilizerVelocity.
FreeJointsSet ==
    {n \in Bodies :
        /\ ClassOfNode(n) = "RBNodeTranslateRotate3"
        /\ ~useEuler
        /\ \A k \in QKeys("q", n) : tag[k] = <<n, "setMobilizerConfiguration">>
        /\ \A k \in UKeys("u", n) : tag[k] = <<n, "setMobilizerVelocity">>}

ConfigurationRoundTrip(n) ==
    Visited("realizeConfiguration", n) =>
       /\ mem[<<"X_JbJ", n>>].R = mem[<<"argX_JbJ", n>>].R
       /\ mem[<<"X_JbJ", n>>].T = mem[<<"argX_JbJ", n>>].T
       /\ fromQVec3(mem, "q", n, 4) = mem[<<"argX_JbJ", n>>].T

DefaultsInPlace(n) ==
    /\ \A k \in SlotKeys("q", qIndex(n), maxNQ(n)) : tag[k] = <<n, "setDefaultConfigurationValues">>
    /\ \A k \in UKeys("u", n) : tag[k] = <<n, "setDefaultMotionValues">>

DefaultQ(n) ==
    IF ClassOfNode(n) \in QuaternionClasses /\ ~useEuler
    THEN <<1, 0, 0, 0>> \o VZero(maxNQ(n) - 4)
    ELSE VZero(maxNQ(n))

\* Entries changed since the defaults pass under way began.
ChangedInPass == {k \in DOMAIN mem : mem[k] # memAtStart[k]}

\* C19: after setDefaultConfigurationValues and setDefaultMotionValues on a
\* node all maxNQ entries of its q slot are zero, except that a Ball or Free
\* joint in quaternion mode holds (1,0,0,0) in its first four, and all dof
\* entries of its u slot are zero; neither changes an entry outside the
\* node's own slot; Ground's setDefaultModelingValues marks body 0 as
\* prescribed, and that of any other node changes nothing.
C19_Defaults ==
    /\ \A n \in Bodies :
          DefaultsInPlace(n) =>
             /\ FromSlots(mem, "q", qIndex(n), maxNQ(n)) = DefaultQ(n)
             /\ fromU(mem, "u", n) = VZero(dof(n))
    /\ lastOp.op = "setDefaultConfigurationValues" =>
          /\ lastOp.writes = SlotKeys("q", qIndex(lastOp.node), maxNQ(lastOp.node))
          /\ \A k \in ChangedInPass : k[1] = "q" /\ \E b \in done : InOwnRange(k, b)
    /\ lastOp.op = "setDefaultMotionValues" =>
          /\ lastOp.writes = UKeys("u", lastOp.node)
          /\ \A k \in ChangedInPass : k[1] = "u" /\ \E b \in done : InOwnRange(k, b)
    /\ lastOp.op = "setDefaultModelingValues" =>
          /\ lastOp.writes = IF lastOp.node = 0 THEN {<<"prescribed", 0>>} ELSE {}
          /\ mem[<<"prescribed", 0>>] = (tag[<<"prescribed", 0>>] = <<0, "setDefaultModelingValues">>)
    /\ \A k \in DOMAIN tag :
          tag[k][2] = "setDefaultModelingValues" => k = <<"prescribed", 0>>
    /\ \A n \in Bodies : mem[<<"prescribed", n>>] = FALSE

\* Both defaults are in place on a Free joint in quaternion mode that has
\* neighbours in q and u, with Ground marked as prescribed.
C19_Witness ==
    /\ mem[<<"prescribed", 0>>] = TRUE
    /\ ~useEuler
    /\ \E n \in Bodies :
          /\ ClassOfNode(n) = "RBNodeTranslateRotate3"
          /\ DefaultsInPlace(n)
          /\ qIndex(n) > 0
          /\ tree.nQ > qIndex(n) + maxNQ(n)
          /\ lastOp.op = "setDefaultMotionValues"

(***************************************************************************)
(* Properties of the coordinate derivatives.                               *)
(***************************************************************************)
\* The classes of the source that define calcQDot and calcQDotDot of their
\* own: RBNodeRotate3 and RBNodeTranslateRotate3 define both.
OverridesCalcQDot == {"RBNodeRotate3", "RBNodeTranslateRotate3"}
OverridesCalcQDotDot == {"RBNodeRotate3", "RBNodeTranslateRotate3"}
NodeClasses == {ClassOf(t) : t \in SupportedTypes}

\* C20: for every variant other than Ball and Free, realizeMotion leaves the
\* node's qdot slot equal entry by entry to its u slot and calcAccel leaves
\* its qdotdot slot equal to its udot slot; Ball and Free are the only
\* variants that override calcQDot, and both override calcQDotDot as well.
C20_DefaultDerivatives ==
    /\ \A n \in Bodies :
          ClassOfNode(n) \notin OverridesCalcQDot =>
             /\ maxNQ(n) = dof(n)
             /\ Visited("realizeMotion", n) =>
                   FromSlots(mem, "qdot", qIndex(n), maxNQ(n)) = fromU(mem, "u", n)
             /\ Visited("calcAccel", n) =>
                   FromSlots(mem, "qdotdot", qIndex(n), maxNQ(n)) = fromU(mem, "udot", n)
    /\ OverridesCalcQDot = {ClassOf("Orientation"), ClassOf("Free")}
    /\ OverridesCalcQDotDot = OverridesCalcQDot
    /\ OverridesCalcQDot \subseteq NodeClasses
    /\ \A n \in Bodies :
          (ClassOfNode(n) \in OverridesCalcQDot /\ ~useEuler /\ Visited("realizeMotion", n)) =>
             fromQuat(mem, "qdot", n)
                = convertAngVelToQuaternionDot(fromQuat(mem, "q", n), AngularSpeeds("u", n))

\* calcAccel has run on a joint without a quaternion whose slot in q starts
\* elsewhere than its slot in u, with speeds and accelerations that are not
\* all zero and differ.
C20_Witness ==
    \E n \in Bodies :
       /\ ClassOfNode(n) \notin OverridesCalcQDot
       /\ Visited("calcAccel", n)
       /\ qIndex(n) # uIndex(n)
       /\ fromU(mem, "u", n) # VZero(dof(n))
       /\ fromU(mem, "udot", n) # fromU(mem, "u", n)
       /\ \E b \in Bodies : ClassOfNode(b) \in OverridesCalcQDot /\ Visited("calcAccel", b)

(***************************************************************************)
(* Properties of the across-joint transform.                               *)
(***************************************************************************)
\* The entries of q in the coordinate slot of node n.
OwnCoordinates(n) == SlotKeys("q", qIndex(n), maxNQ(n))
\* Other contents for the arrays: every entry takes the value of its
\* neighbour in the same array, or nothing has been stored anywhere.
Shifted(m) ==
    [k \in DOMAIN m |-> IF <<k[1], k[2] + 1>> \in DOMAIN m THEN m[<<k[1], k[2] + 1>>]
                        ELSE m[<<k[1], 0>>]]
Blank(m) == [k \in DOMAIN m |-> Unset(k[1])]
\* Memory m2 with the coordinates of node n as they are in mem.
WithOwnCoordinates(n, m2) ==
    [k \in DOMAIN mem |-> IF k \in OwnCoordinates(n) THEN mem[k] ELSE m2[k]]
X_JbJFrom(m, n) == calcAcrossJointTransform(m, n).writes[<<"X_JbJ", n>>]

\* C21: for every joint variant calcAcrossJointTransform reads only entries
\* of q inside the node's own coordinate slot, and the X_JbJ it produced is
\* the one it produces from any memory that has the same entries there and
\* the same modeling choice: other entries of q, every cache and every other
\* node's entries may hold anything.
C21_OwnCoordinatesOnly ==
    \A n \in Bodies :
       Visited("realizeConfiguration", n) =>
          /\ calcAcrossJointTransform(mem, n).reads \subseteq OwnCoordinates(n)
          /\ mem[<<"X_JbJ", n>>] = X_JbJFrom(WithOwnCoordinates(n, Shifted(mem)), n)
          /\ mem[<<"X_JbJ", n>>] = X_JbJFrom(WithOwnCoordinates(n, Blank(mem)), n)

\* A Free joint in quaternion mode, not the first in q, has been realized
\* with a rotation and a translation; the other memory differs in the
\* coordinates before and after its slot and in the caches.
C21_Witness ==
    /\ ~useEuler
    /\ lastOp.op = "realizeMotion"
    /\ \E n \in Bodies :
          /\ ClassOfNode(n) = "RBNodeTranslateRotate3"
          /\ qIndex(n) > 0
          /\ mem[<<"X_JbJ", n>>].R # Ident(3)
          /\ mem[<<"X_JbJ", n>>].T # VZero(3)
          /\ \E k \in DOMAIN mem : k[1] = "q" /\ k[2] < qIndex(n) /\ Shifted(mem)[k] # mem[k]
          /\ \E k \in DOMAIN mem : k[1] = "q" /\ k[2] >= qIndex(n) + maxNQ(n)
                                    /\ Shifted(mem)[k] # mem[k]
          /\ Shifted(mem)[<<"X_GB", n>>] # mem[<<"X_GB", n>>]

(***************************************************************************)
(* Properties of the residual pass and of the acceleration pass.           *)
(***************************************************************************)
\* The sum, over the bodies c whose parent is n, of term[c].
OverDirectChildren(n, term) ==
    VSum(Tuple([c \in 1..tree.N |-> IF Parent(c) = n THEN term[c] ELSE SpatialZero]),
         SpatialZero)
HOf(n) == getH(mem, n)
GOf(n) == getG(mem, n)
DIOf(n) == fromUSq(mem, "storageForDI", n)

\* C22: once calcZ has been invoked on a body n,
\*   z = centrifugalForces - spatialForce + sum over the direct children c of
\*       Phi_c * (z_c + Gepsilon_c),
\*   epsilon = appliedJointForce - H * z,  nu = DI * epsilon,
\*   Gepsilon = G * epsilon;
\* each direct child enters the sum once and no other node enters it.
C22_CalcZ ==
    \A n \in Bodies :
       (Visited("calcZ", n) /\ ~aborted) =>
          LET shifted == [c \in Bodies |->
                            MatVec(PhiMatrix(mem[<<"Phi", c>>]),
                                   VAdd(mem[<<"z", c>>], mem[<<"Gepsilon", c>>]))]
              z == mem[<<"z", n>>]
              epsilon == fromU(mem, "epsilon", n)
          IN /\ z = VAdd(VSub(mem[<<"centrifugalForces", n>>], mem[<<"bodyForces", n>>]),
                         OverDirectChildren(n, shifted))
             /\ epsilon = VSub(fromU(mem, "appliedMobilityForces", n), MatVec(HOf(n), z))
             /\ fromU(mem, "nu", n) = MatVec(DIOf(n), epsilon)
             /\ mem[<<"Gepsilon", n>>] = MatVec(GOf(n), epsilon)

\* calcZ has run on a body with two children whose shifted terms are not
\* zero, under an applied spatial force that is not zero.
C22_Witness ==
    /\ lastOp.op = "calcZ"
    /\ lastOp.node # 0
    /\ Cardinality(ChildSet(lastOp.node)) = 2
    /\ mem[<<"bodyForces", lastOp.node>>] # SpatialZero
    /\ \A c \in ChildSet(lastOp.node) :
          /\ mem[<<"Gepsilon", c>>] # SpatialZero
          /\ MatVec(PhiMatrix(mem[<<"Phi", c>>]), VAdd(mem[<<"z", c>>], mem[<<"Gepsilon", c>>]))
                # SpatialZero
    /\ mem[<<"z", lastOp.node>>] # SpatialZero

\* C23: once calcAccel has been invoked on a body n,
\*   alphap = ~Phi * A_GB of the parent, zero when the parent is Ground,
\*   udot = nu - ~G * alphap,  A_GB = alphap + ~H * udot + coriolisAcceleration,
\* and qdotdot is what the joint's calcQDotDot makes of that udot: the udot
\* entries the call read for it are the ones the same call stored.
C23_CalcAccel ==
    \A n \in Bodies :
       Visited("calcAccel", n) =>
          LET A_GP == IF Parent(n) = 0 THEN SpatialZero ELSE mem[<<"A_GB", Parent(n)>>]
              alphap == MatVec(Transpose(PhiMatrix(mem[<<"Phi", n>>])), A_GP)
              udot == fromU(mem, "udot", n)
              qdotdot == calcQDotDot(mem, n).writes
          IN /\ udot = VSub(fromU(mem, "nu", n), MatVec(Transpose(GOf(n)), alphap))
             /\ mem[<<"A_GB", n>>] = VAdd(VAdd(alphap, MatVec(Transpose(HOf(n)), udot)),
                                          mem[<<"coriolisAcceleration", n>>])
             /\ \A k \in DOMAIN qdotdot : mem[k] = qdotdot[k]
             /\ (lastOp.op = "calcAccel" /\ lastOp.node = n) =>
                   \A k \in UKeys("udot", n) : <<k, <<n, "calcAccel">>>> \in lastOp.reads

\* calcAccel has run on a quaternion joint whose parent is a body with an
\* acceleration, itself a child of Ground, and the results are not zero.
C23_Witness ==
    /\ ~useEuler
    /\ lastOp.op = "calcAccel"
    /\ ClassOfNode(lastOp.node) \in QuaternionClasses
    /\ Parent(lastOp.node) # 0
    /\ Parent(Parent(lastOp.node)) = 0
    /\ mem[<<"A_GB", Parent(lastOp.node)>>] # SpatialZero
    /\ mem[<<"A_GB", lastOp.node>>] # mem[<<"A_GB", Parent(lastOp.node)>>]
    /\ fromU(mem, "udot", lastOp.node) # VZero(dof(lastOp.node))
    /\ fromQuat(mem, "qdotdot", lastOp.node) # VZero(4)

(***************************************************************************)
(* Properties of the velocity-dependent dynamics terms.                    *)
(***************************************************************************)
\* C24: once calcJointIndependentDynamicsVel has been invoked on a body,
\*   gyroscopicForce = (omega x (I * omega), m * (omega x (omega x c))),
\*   coriolisAcceleration = (0, pOmega x (vel - pVel)) + crossMat(omega) * V_PB_G,
\*   centrifugalForces = P * coriolisAcceleration + gyroscopicForce,
\* with omega, vel the body's own angular and linear velocity and pOmega, pVel
\* its parent's; once it has been invoked on node 0 all three are zero there.
C24_VelocityTerms ==
    /\ Visited("calcJointIndependentDynamicsVel", 0) => GroundDynamicsZero
    /\ \A n \in Bodies :
         Visited("calcJointIndependentDynamicsVel", n) =>
            LET omega == Ang(mem[<<"V_GB", n>>])
                vel == Lin(mem[<<"V_GB", n>>])
                pOmega == Ang(mem[<<"V_GB", Parent(n)>>])
                pVel == Lin(mem[<<"V_GB", Parent(n)>>])
                I == mem[<<"Inertia_OB_G", n>>]
                c == mem[<<"CB_G", n>>]
                V_PB_G == mem[<<"V_PB_G", n>>]
                gyro == mem[<<"gyroscopicForce", n>>]
                a == mem[<<"coriolisAcceleration", n>>]
            IN /\ Ang(gyro) = cross(omega, MatVec(I, omega))
               /\ Lin(gyro) = VScale(getMass(n), cross(omega, cross(omega, c)))
               /\ Ang(a) = cross(omega, Ang(V_PB_G))
               /\ Lin(a) = VAdd(cross(pOmega, VSub(vel, pVel)), cross(omega, Lin(V_PB_G)))
               /\ mem[<<"centrifugalForces", n>>] = VAdd(MatVec(mem[<<"P", n>>], a), gyro)

\* The terms have been computed for a body whose parent turns at another rate
\* than the body itself, none of them is zero, and taking the parent's
\* angular velocity in the second term would have given another result.
C24_Witness ==
    /\ lastOp.op = "calcJointIndependentDynamicsVel"
    /\ lastOp.node # 0
    /\ Parent(lastOp.node) # 0
    /\ LET n == lastOp.node
           omega == Ang(mem[<<"V_GB", n>>])
           pOmega == Ang(mem[<<"V_GB", Parent(n)>>])
       IN /\ omega # pOmega /\ pOmega # VZero(3)
          /\ Ang(mem[<<"gyroscopicForce", n>>]) # VZero(3)
          /\ Lin(mem[<<"gyroscopicForce", n>>]) # VZero(3)
          /\ Lin(mem[<<"coriolisAcceleration", n>>]) # VZero(3)
          /\ mem[<<"centrifugalForces", n>>] # mem[<<"gyroscopicForce", n>>]
          /\ cross(pOmega, Lin(mem[<<"V_PB_G", n>>])) # cross(omega, Lin(mem[<<"V_PB_G", n>>]))

VelocityTerms == {"gyroscopicForce", "coriolisAcceleration", "centrifugalForces"}
OwnInputsOfVelocityTerms == {"V_GB", "V_PB_G", "Inertia_OB_G", "CB_G", "P"}
Unwritten == <<-1, "unset">>

\* C25: every invocation of calcJointIndependentDynamicsVel reads only the
\* node's own Configuration and Motion entries, its own P, its parent's V_GB
\* and the two terms the same invocation has just stored, never a term stored
\* by an invocation on another node.  So once Motion is realized and the
\* inertia pass is over, the pass over the nodes in whatever order ends with
\* the terms that the order of the node array gives.  Invoked on a body before
\* calcArticulatedBodyInertiasInward has been invoked on it, it reads a P
\* that nothing has written.
C25_VelocityTermsAnyOrder ==
    /\ lastOp.op = "calcJointIndependentDynamicsVel" =>
          LET n == lastOp.node IN
          /\ \A r \in lastOp.reads :
                \/ r[1][2] = n /\ r[1][1] \in OwnInputsOfVelocityTerms
                \/ r[1][2] = n /\ r[1][1] \in VelocityTerms /\ r[2] = <<n, lastOp.op>>
                \/ r[1] = <<"V_GB", Parent(n)>>
          /\ n # 0 =>
                /\ <<<<"P", n>>, tag[<<"P", n>>]>> \in lastOp.reads
                /\ tag[<<"P", n>>] \in {Unwritten, <<n, "calcArticulatedBodyInertiasInward">>}
                /\ (tag[<<"P", n>>] = Unwritten) <=> (pass = InertiaPass /\ n \notin done)
    /\ (pass = VelocityTermsPass /\ PassComplete) =>
          LET inArrayOrder == WholePass(CurrentOp, RunFrom(memAtStart, tag)).mem IN
          \A k \in DOMAIN mem : k[1] \in VelocityTerms => mem[k] = inArrayOrder[k]

\* The routine has just been invoked on a body the inertia pass has not
\* reached, after an invocation on a body it had reached.
C25_Witness ==
    /\ pass = InertiaPass
    /\ lastOp.op = "calcJointIndependentDynamicsVel"
    /\ lastOp.node # 0
    /\ lastOp.node \notin done
    /\ <<<<"P", lastOp.node>>, Unwritten>> \in lastOp.reads
    /\ \E b \in done \ {0} : b \in InvokedEarly

(***************************************************************************)
(* Properties of the reductions from spatial to joint quantities.          *)
(***************************************************************************)
\* What the motion of the tree decides, and what a reduction leaves behind.
VelocityDependent == {"u", "uIn", "qdot", "V_PB_G", "V_GB"} \cup VelocityTerms
EquivalentForceOutputs == {"eqZ", "eqGepsilon", "eqJointForces"}
\* The memory at the start of the pass with other contents in the named arrays.
OtherContents(arrs) ==
    [k \in DOMAIN memAtStart |-> IF k[1] \in arrs THEN Shifted(memAtStart)[k]
                                 ELSE memAtStart[k]]
PassFrom(m) == WholePass(CurrentOp, RunFrom(m, tag)).mem

\* C26: once calcEquivalentJointForces has been invoked on a body n,
\*   z = bodyForces + sum over the direct children c of
\*       Phi_c * (z_c + G_c * jointForces_c),   jointForces = H * z,
\* and allGepsilon = G * jointForces; on Ground allZ[0] = bodyForces[0] and
\* allGepsilon[0] = 0.  No centrifugal term enters: the completed pass gives
\* the same three arrays from other velocities and velocity-dependent cache
\* entries, and from other prior contents of the three arrays.
C26_EquivalentJointForces ==
    /\ Visited("calcEquivalentJointForces", 0) =>
          /\ mem[<<"eqZ", 0>>] = mem[<<"bodyForces", 0>>]
          /\ mem[<<"eqGepsilon", 0>>] = SpatialZero
    /\ \A n \in Bodies :
          Visited("calcEquivalentJointForces", n) =>
             LET shifted == [c \in Bodies |->
                               MatVec(PhiMatrix(mem[<<"Phi", c>>]),
                                      VAdd(mem[<<"eqZ", c>>],
                                           MatVec(GOf(c), fromU(mem, "eqJointForces", c))))]
                 z == mem[<<"eqZ", n>>]
             IN /\ z = VAdd(mem[<<"bodyForces", n>>], OverDirectChildren(n, shifted))
                /\ fromU(mem, "eqJointForces", n) = MatVec(HOf(n), z)
                /\ mem[<<"eqGepsilon", n>>] = MatVec(GOf(n), fromU(mem, "eqJointForces", n))
    /\ (CurrentOp = "calcEquivalentJointForces" /\ PassComplete) =>
          LET fromOtherVelocities == PassFrom(OtherContents(VelocityDependent))
              fromOtherOutputs == PassFrom(OtherContents(EquivalentForceOutputs))
          IN \A k \in DOMAIN mem :
                k[1] \in EquivalentForceOutputs =>
                   mem[k] = fromOtherVelocities[k] /\ mem[k] = fromOtherOutputs[k]

\* The pass is over on a tree in motion with a body that has two children;
\* the joint forces found are not zero and the centrifugal forces it would
\* have met are neither zero nor the same from body to body.
C26_Witness ==
    /\ CurrentOp = "calcEquivalentJointForces" /\ PassComplete
    /\ \E n \in Bodies :
          /\ Cardinality(ChildSet(n)) = 2
          /\ fromU(mem, "eqJointForces", n) # VZero(dof(n))
          /\ mem[<<"centrifugalForces", n>>] # SpatialZero
          /\ OtherContents(VelocityDependent)[<<"centrifugalForces", n>>]
                # mem[<<"centrifugalForces", n>>]
          /\ \A c \in ChildSet(n) : mem[<<"eqGepsilon", c>>] # SpatialZero

GradientOutputs == {"JX", "zTmp"}
ForcesAndDynamics ==
    DynamicsCache \cup ReactionCache \cup {"jointForces", "bodyForces"} \cup VelocityDependent

\* C27: once calcInternalGradientFromSpatial has been invoked on a body n,
\*   z = X + sum over the direct children c of Phi_c * z_c,   JX = H * z,
\* with z the node's entry of zTmp.  The call reads, besides X and the
\* children's zTmp, only H and Phi of the Configuration cache; the node's
\* slot of JX is overwritten: the completed pass gives the same JX and zTmp
\* on the bodies from other prior contents of JX and zTmp, and from other
\* joint forces, body forces, velocities, Dynamics and Reaction cache entries.
C27_InternalGradient ==
    /\ \A n \in Bodies :
          Visited("calcInternalGradientFromSpatial", n) =>
             LET shifted == [c \in Bodies |->
                               MatVec(PhiMatrix(mem[<<"Phi", c>>]), mem[<<"zTmp", c>>])]
                 z == mem[<<"zTmp", n>>]
             IN /\ z = VAdd(mem[<<"X", n>>], OverDirectChildren(n, shifted))
                /\ fromU(mem, "JX", n) = MatVec(HOf(n), z)
    /\ lastOp.op = "calcInternalGradientFromSpatial" =>
          \A r \in lastOp.reads :
             \/ r[1] = <<"X", lastOp.node>>
             \/ r[1] \in UKeys("storageForHt", lastOp.node)
             \/ r[1] \in ChildKeys({"Phi"}, lastOp.node)
             \/ r[1] \in ChildKeys({"zTmp"}, lastOp.node) /\ r[2] = <<r[1][2], lastOp.op>>
    /\ (CurrentOp = "calcInternalGradientFromSpatial" /\ PassComplete) =>
          LET fromOtherOutputs == PassFrom(OtherContents(GradientOutputs))
              fromOtherForces == PassFrom(OtherContents(ForcesAndDynamics))
          IN \A k \in DOMAIN mem :
                (k[1] = "JX" \/ (k[1] = "zTmp" /\ k[2] # 0)) =>
                   mem[k] = fromOtherOutputs[k] /\ mem[k] = fromOtherForces[k]

\* The pass is over on a tree with a body that has two children; JX there is
\* neither zero nor what its slot held before, which was not zero either.
C27_Witness ==
    /\ CurrentOp = "calcInternalGradientFromSpatial" /\ PassComplete
    /\ \E n \in Bodies :
          /\ Cardinality(ChildSet(n)) = 2
          /\ fromU(mem, "JX", n) # VZero(dof(n))
          /\ fromU(memAtStart, "JX", n) # VZero(dof(n))
          /\ fromU(mem, "JX", n) # fromU(memAtStart, "JX", n)
          /\ \A c \in ChildSet(n) : mem[<<"zTmp", c>>] # SpatialZero
          /\ fromU(OtherContents(ForcesAndDynamics), "storageForG", n)
                # fromU(mem, "storageForG", n)

(***************************************************************************)
(* Properties of setQ.                                                     *)
(***************************************************************************)
\* C28: setQ(mv, qIn, q) invoked on a node copies from qIn to q exactly the
\* node's current NQ coordinates, the extra quaternion coordinate included
\* (4 entries for a Ball joint and 7 for a Free joint in quaternion mode),
\* and changes no entry outside them.
C28_SetQCopiesNQ ==
    lastOp.op = "setQ" =>
       LET n == lastOp.node
           coordinates == SlotKeys("q", qIndex(n), getNQ(ClassOfNode(n), useEuler))
       IN /\ lastOp.writes = coordinates
          /\ \A k \in coordinates : mem[k] = mem[<<"qIn", k[2]>>]

(***************************************************************************)
(* Properties of the slots handed out by create.                           *)
(***************************************************************************)
URange(nd) == {nd.uIndex + i : i \in 0..(getDOF(nd.class) - 1)}
QRange(nd) == {nd.qIndex + i : i \in 0..(getMaxNQ(nd.class) - 1)}
USqRange(nd) == {nd.uSqIndex + i : i \in 0..(getDOF(nd.class) * getDOF(nd.class) - 1)}
RECURSIVE SizesUpTo(_, _)
SizesUpTo(nodes, k) ==
    IF k = 0 THEN [u |-> 0, uSq |-> 0, q |-> 0]
    ELSE updateSlots(nodes[k].class, SizesUpTo(nodes, k - 1))
\* The ranges are disjoint, follow one another in creation order, and fill
\* the indices below the counter.
LaidOutInOrder(range(_), counter) ==
    /\ \A i, j \in 1..Len(created) :
          i < j => /\ range(created[i]) \cap range(created[j]) = {}
                   /\ \A a \in range(created[i]), b \in range(created[j]) : a < b
    /\ UNION {range(created[i]) : i \in 1..Len(created)} = 0..(counter - 1)

\* C29: after any sequence of create calls that returned nodes, sharing the
\* three counters from 0 on, the ranges [uIndex, uIndex+dof), [qIndex,
\* qIndex+maxNQ) and [uSqIndex, uSqIndex+dof*dof) of the created nodes are
\* pairwise disjoint, lie in creation order without gaps, and each counter is
\* the sum of the sizes of the nodes created so far.
C29_SlotsLaidOut ==
    /\ LaidOutInOrder(URange, nextUSlot)
    /\ LaidOutInOrder(QRange, nextQSlot)
    /\ LaidOutInOrder(USqRange, nextUSqSlot)
    /\ Counters = SizesUpTo(created, Len(created))
    /\ nextUSlot = Cardinality(UNION {URange(created[i]) : i \in 1..Len(created)})
    /\ nextQSlot = Cardinality(UNION {QRange(created[i]) : i \in 1..Len(created)})

\* A Ball joint, then Ground, then a Free joint: the Free joint's coordinates
\* start after the four of the Ball joint, its mobilities after the three.
C29_Witness ==
    /\ Len(created) = 3
    /\ created[1].class = "RBNodeRotate3"
    /\ created[2].class = "RBGroundBody"
    /\ created[3].class = "RBNodeTranslateRotate3"
    /\ created[3].qIndex = 4 /\ created[3].uIndex = 3 /\ created[3].uSqIndex = 9
    /\ nextQSlot = 11 /\ nextUSlot = 9 /\ nextUSqSlot = 45

(***************************************************************************)
(* Properties of setting the speeds from spatial velocities.               *)
(***************************************************************************)
\* C30: setVelFromSVel inverts the velocity recursion: handed the V_GB that
\* realizeMotion computed as ~Phi * V_parent + ~H * u, it puts the same u
\* back into the node's u slot, for every joint type and also when the joint
\* frame is offset from the body origin.
C30_SetVelFromSVelInverts ==
    (lastOp.op = "setVelFromSVel" /\ lastOp.node \in Bodies)
       => \A k \in UKeys("u", lastOp.node) : mem[k] = memAtStart[k]

====
